---- MODULE Spec2Model ----
(***************************************************************************)
(* State-machine model of the pediatric health-monitoring simulator        *)
(* (src/backend/data_simulator.py, src/backend/scenarios.py).              *)
(*                                                                         *)
(* Fixed-point units (Python floats are modelled as exact decimals):       *)
(*   glucose                      1e-4 mmol/L   (5.5 mmol/L = 55000)       *)
(*   heart rate, respiratory rate 1e-1 /min     (90 bpm     = 900)         *)
(*   SpO2                         1e-4 percent  (98.0 %     = 980000)      *)
(*   mood, asthma risk            1e-4          (0.7        = 7000)        *)
(*   activity, stress, pollen,                                             *)
(*   air quality                  1e-3          (0.5        = 500)         *)
(*   anomaly score (in an event)  1e-3          health score 1e-1          *)
(* An event's value is kept in the unit of its channel, rounded to the     *)
(* number of decimals the generator rounds it to.                          *)
(***************************************************************************)
EXTENDS Integers, Sequences, FiniteSets, TLC

VARIABLES
    sim,        \* the MedicalDataSimulator instance (its fields)
    startHour,  \* wall-clock hour at construction (datetime.now().hour)
    clock,      \* whole hours elapsed since construction (time.time())
    peer,       \* a second MedicalDataSimulator instance, for another subject
    files,      \* the file system: path -> the records appended to that file
    run,        \* the scenario run in progress (run_scenario's local state)
    args,       \* the arguments of the function applied last
    last,       \* what the last operation returned (an event, a result, an error)
    op,         \* the last operation that ran
    steps       \* number of operations run so far (bounded)

vars == <<sim, peer, startHour, clock, files, run, args, last, op, steps>>

-----------------------------------------------------------------------------
(* Bounds of the model *)

MaxSteps == 3
MaxClock == 5
MaxRuns == 2

-----------------------------------------------------------------------------
(* Arithmetic helpers *)

Abs(x) == IF x < 0 THEN -x ELSE x
Min(a, b) == IF a <= b THEN a ELSE b
Max(a, b) == IF a >= b THEN a ELSE b

\* Python's max(lo, min(hi, x))
Clamp(lo, hi, x) == Max(lo, Min(hi, x))

\* n/d rounded to the nearest integer, ties to the even one (Python's round),
\* for d > 0.
RoundDiv(n, d) ==
    LET q == n \div d
        r == n - q * d
    IN  IF 2 * r < d THEN q
        ELSE IF 2 * r > d THEN q + 1
        ELSE IF q % 2 = 0 THEN q ELSE q + 1

\* x rounded to a multiple of unit (round(x, k) of a value kept in finer units)
RoundTo(x, unit) == RoundDiv(x, unit) * unit

\* Optional[...] = None of a numeric field of HealthEvent
NoneNum == -1

-----------------------------------------------------------------------------
(* Program constants: the clamp ranges of the channel generators *)

GlucoseMin == 25000
GlucoseMax == 180000
HeartRateMin == 600
HeartRateMax == 1400
Spo2Min == 920000
Spo2Max == 1000000
UnitMax == 10000
ActivityMax == 1000
RespMin == 180
RespMax == 350

-----------------------------------------------------------------------------
(* Environment: the clock *)

Hour(h0, c) == (h0 + c) % 24

\* _get_time_of_day_factor, in tenths
get_time_of_day_factor(hour) ==
    IF 8 <= hour /\ hour <= 9 THEN 13
    ELSE IF 12 <= hour /\ hour <= 13 THEN 14
    ELSE IF 18 <= hour /\ hour <= 19 THEN 13
    ELSE IF 2 <= hour /\ hour <= 6 THEN 12
    ELSE 10

-----------------------------------------------------------------------------
(* Analytics *)

\* sum of the successive deltas of a sequence, as the list comprehension and
\* sum() of _calculate_trend compute it
RECURSIVE SumChanges(_, _)
SumChanges(recent, i) ==
    IF i > Len(recent) THEN 0
    ELSE (recent[i] - recent[i - 1]) + SumChanges(recent, i + 1)

\* list(history)[-5:]
LastFive(history) ==
    IF Len(history) <= 5 THEN history
    ELSE SubSeq(history, Len(history) - 4, Len(history))

\* _calculate_trend(history, current); unit = the value of 1.0 in the
\* history's fixed-point unit.  avg_change = total / n is compared by
\* cross-multiplication: avg < 0.1  <=>  10 * total < n * unit.
MutTrendMinTwo(history, current, unit) ==
    IF Len(history) < 2 THEN "stable"
    ELSE LET recent == LastFive(history)
             n      == Len(recent) - 1
             total  == SumChanges(recent, 2)
         IN  IF 10 * Abs(total) < n * unit THEN "stable"
             ELSE IF 10 * total > 3 * n * unit THEN "rising"
             ELSE IF 10 * total < -3 * n * unit THEN "falling"
             ELSE IF 10 * Abs(total) > 2 * n * unit THEN "volatile" ELSE "stable"
MutTrendNoDeadBand(history, current, unit) ==
    IF Len(history) < 3 THEN "stable"
    ELSE LET recent == LastFive(history)
             n      == Len(recent) - 1
             total  == SumChanges(recent, 2)
         IN  IF 10 * Abs(total) < n * unit THEN "stable"
             ELSE IF 10 * total > 3 * n * unit THEN "rising"
             ELSE IF 10 * total < -3 * n * unit THEN "falling"
             ELSE "volatile"
calculate_trend(history, current, unit) ==
    IF Len(history) < 3 THEN "stable"
    ELSE LET recent == LastFive(history)
             n      == Len(recent) - 1
             total  == SumChanges(recent, 2)
         IN  IF Len(recent) < 3 THEN "stable"
             ELSE IF 10 * Abs(total) < n * unit THEN "stable"
             ELSE IF 10 * total > 3 * n * unit THEN "rising"
             ELSE IF 10 * total < -3 * n * unit THEN "falling"
             ELSE IF 10 * Abs(total) > 2 * n * unit THEN "volatile" ELSE "stable"

\* A score as an exact fraction n/d (d > 0), or the exception raised.
Rat(n, d) == [raised |-> "", n |-> n, d |-> d]
Raised(e) == [raised |-> e, n |-> 0, d |-> 1]
RatLE(a, b) == a.n * b.d <= b.n * a.d
RatMin(a, b) == IF RatLE(a, b) THEN a ELSE b

\* _calculate_anomaly_score(value, baseline, (lower, upper)).  A float
\* division by zero raises ZeroDivisionError.  The fraction is normalised to
\* a positive denominator.
Div(n, d) ==
    IF d = 0 THEN Raised("ZeroDivisionError")
    ELSE IF d < 0 THEN Rat(-n, -d) ELSE Rat(n, d)
\* min(0.5 + q * 0.5, 1.0)
HalfPlusHalf(q) ==
    IF q.raised # "" THEN q ELSE RatMin(Rat(q.d + q.n, 2 * q.d), Rat(1, 1))
\* the three branches of _calculate_anomaly_score
AnomalyWithin(value, baseline, lower, upper) ==
    LET distance == Div(Abs(value - baseline), upper - lower)
    IN  IF distance.raised # "" THEN distance
        ELSE RatMin(Rat(distance.n, 2 * distance.d), Rat(1, 2))
AnomalyBelow(value, baseline, lower, upper) ==
    HalfPlusHalf(Div(lower - value, baseline - lower))
AnomalyAbove(value, baseline, lower, upper) ==
    HalfPlusHalf(Div(value - upper, upper - baseline))
calculate_anomaly_score(value, baseline, lower, upper) ==
    IF lower <= value /\ value <= upper
        THEN AnomalyWithin(value, baseline, lower, upper)
    ELSE IF value < lower
        THEN AnomalyBelow(value, baseline, lower, upper)
    ELSE AnomalyAbove(value, baseline, lower, upper)

\* _calculate_health_score of a state, in tenths of a point (round(score, 1)).
\* The running score is kept in 1e-6 points; every division by 10 is exact.
GlucoseScore(g) ==
    IF 40000 <= g /\ g <= 70000 THEN 100
    ELSE IF (35000 <= g /\ g < 40000) \/ (70000 < g /\ g <= 90000) THEN 70
    ELSE IF (30000 <= g /\ g < 35000) \/ (90000 < g /\ g <= 110000) THEN 40
    ELSE 10
HeartRateScore(h) ==
    IF 700 <= h /\ h <= 1100 THEN 100
    ELSE IF (600 <= h /\ h < 700) \/ (1100 < h /\ h <= 1200) THEN 80
    ELSE 50
health_score_of(glucose, heart_rate, mood, activity, stress) ==
    LET s0 == 100000000
        s1 == (4 * s0 + 4 * GlucoseScore(glucose) * 1000000) \div 10
        s2 == (6 * s1 + 2 * HeartRateScore(heart_rate) * 1000000) \div 10
        s3 == (8 * s2 + 2 * (mood * 10000)) \div 10
        s4 == (9 * s3 + Min(activity * 100000, 100000000)) \div 10
        s5 == Max(0, s4 - stress * 20000)
    IN  RoundDiv(s5, 100000)
calculate_health_score(s) ==
    health_score_of(s.current_glucose, s.current_heart_rate, s.current_mood,
                    s.current_activity, s.current_stress)

-----------------------------------------------------------------------------
(* Events *)

\* HealthEvent(...) as the generators construct it: safety_status and
\* llm_reasoning default to None, correlation_tags to [].
HealthEvent(event_type, value, unit, urgency, trend, anomaly_score, correlation_tags, health_score) ==
    [event_type |-> event_type, value |-> value, unit |-> unit,
     urgency |-> urgency, safety_status |-> "None", llm_reasoning |-> "None",
     trend |-> trend, anomaly_score |-> anomaly_score,
     correlation_tags |-> correlation_tags, health_score |-> health_score]

\* [tag for each condition that holds], in the order the code appends them
Tags(pairs) == SelectSeq(pairs, LAMBDA p : p[1])
TagNames(pairs) == [i \in 1..Len(Tags(pairs)) |-> Tags(pairs)[i][2]]

\* deque(maxlen = cap).append(x)
MutDequeUnbounded(q, x, cap) == Append(q, x)
DequeAppend(q, x, cap) ==
    IF Len(q) < cap THEN Append(q, x) ELSE Append(Tail(q), x)

HistoryCap == 20
EventHistoryCap == 50

-----------------------------------------------------------------------------
(* The history sink: one append-only file per subject *)

\* the subject ids of the two simulator instances
ChildIds == {"child_1", "child_2"}

\* _get_history_file: history_dir / f"{child_id}.jsonl", or the shared
\* events.jsonl when the simulator has no child id (None or "" is falsy)
MutSharedEventsFile(child_id) == "events.jsonl"
get_history_file(child_id) ==
    IF child_id \notin {"None", ""}
    THEN "data/history/" \o child_id \o ".jsonl"
    ELSE "events.jsonl"

\* the files the simulators can write, all empty
NoFiles == [p \in {get_history_file(c) : c \in ChildIds \cup {"None"}} |-> <<>>]

\* event["child_id"] = self.child_id
TagChild(event, child_id) ==
    IF child_id \notin {"None", ""} THEN [child_id |-> child_id] @@ event ELSE event

\* the outcomes of open(history_file, 'a') and f.write
IoOutcomes == {"ok", "OSError"}

\* _append_to_history(event) under the outcome io of the write: the file
\* system after it and the exception that leaves the call ("None": none)
MutAppendSwallowsError(fs, child_id, event, io) ==
    IF io # "ok" THEN [files |-> fs, raises |-> "None"]
    ELSE [files  |-> [fs EXCEPT ![get_history_file(child_id)] =
                                    Append(@, TagChild(event, child_id))],
          raises |-> "None"]
append_to_history(fs, child_id, event, io) ==
    IF io # "ok" THEN [files |-> fs, raises |-> io]
    ELSE [files  |-> [fs EXCEPT ![get_history_file(child_id)] =
                                    Append(@, TagChild(event, child_id))],
          raises |-> "None"]

-----------------------------------------------------------------------------
(* Random draws (random.uniform, random.random), as small sets of outcomes *)

GlucoseNoise == {-15000, 15000}        \* uniform(-1.5, 1.5)
HeartRateNoise == {-150, 200}          \* uniform(-15, 20)
MoodNoise == {-1500, 1500}             \* uniform(-0.15, 0.15)
RiskNoise == {-1000, 1000}             \* uniform(-0.1, 0.1)
RespUp == {20, 50}                     \* uniform(2, 5)
RespDown == {-20, 10}                  \* uniform(-2, 1)
Spo2Noise == {-10000, 10000}           \* uniform(-1.0, 1.0)
ActivityNoise == {-200, 200}           \* uniform(-0.2, 0.2)

-----------------------------------------------------------------------------
(* Channel generators: each returns the new simulator state and the event *)

\* 1.5 * exp(-t / 2) for t hours since the last meal, t < 4, else 0
\* (rounded to 1e-3 mmol/L at the whole hours the clock takes)
MealEffect(hours) ==
    IF hours >= 4 THEN 0
    ELSE IF hours = 0 THEN 15000
    ELSE IF hours = 1 THEN 9100
    ELSE IF hours = 2 THEN 5520
    ELSE 3350

\* the urgency and type thresholds of generate_glucose_event
MutGlucoseClassNoMedium(g) ==
    IF g < 35000 THEN <<"glucose_drop", "critical">>
    ELSE IF g < 40000 THEN <<"glucose_drop", "high">>
    ELSE IF g > 140000 THEN <<"glucose_spike", "critical">>
    ELSE IF g > 110000 THEN <<"glucose_spike", "high">>
    ELSE <<"glucose_normal", "low">>
GlucoseClass(g) ==
    IF g < 35000 THEN <<"glucose_drop", "critical">>
    ELSE IF g < 40000 THEN <<"glucose_drop", "high">>
    ELSE IF g > 140000 THEN <<"glucose_spike", "critical">>
    ELSE IF g > 110000 THEN <<"glucose_spike", "high">>
    ELSE IF g > 90000 THEN <<"glucose_spike", "medium">>
    ELSE <<"glucose_normal", "low">>

\* change = (base_change + activity + medication + meal) * time_factor
GlucoseChange(base_change, activity_effect, medication_effect, meal_effect, time_factor) ==
    ((base_change + activity_effect + medication_effect + meal_effect)
        * time_factor) \div 10

MutGlucoseNoClamp(lo, hi, x) == x
ClampGlucose(lo, hi, x) == Max(lo, Min(hi, x))

generate_glucose_event(s, hour, elapsed, base_change) ==
    LET time_factor       == get_time_of_day_factor(hour)
        activity_effect   == -(s.current_activity * 5)
        medication_effect == IF 1 + elapsed < 2 THEN -3000 ELSE 0
        meal_effect       == MealEffect(2 + elapsed)
        change  == GlucoseChange(base_change, activity_effect,
                                 medication_effect, meal_effect, time_factor)
        g       == ClampGlucose(GlucoseMin, GlucoseMax, s.current_glucose + change)
        hist    == DequeAppend(s.glucose_history, g, HistoryCap)
        trend   == calculate_trend(hist, g, 10000)
        score   == calculate_anomaly_score(g, 55000, 40000, 70000)
        s1      == [s EXCEPT !.current_glucose = g, !.glucose_history = hist]
        cls     == GlucoseClass(g)
        tags    == TagNames(<< <<s.current_heart_rate > 1100, "elevated_heart_rate">>,
                               <<s.current_mood < 4000, "low_mood">>,
                               <<s.current_activity > 700, "high_activity">> >>)
    IN  [sim   |-> s1,
         event |-> HealthEvent(cls[1], RoundTo(g, 100), "mmol/L", cls[2], trend,
                               RoundDiv(1000 * score.n, score.d), tags,
                               calculate_health_score(s1)),
         change |-> change, time_factor |-> time_factor]

generate_heart_rate_event(s, change) ==
    LET h  == Clamp(HeartRateMin, HeartRateMax, s.current_heart_rate + change)
        s1 == [s EXCEPT !.current_heart_rate = h]
        cls == IF h > 1200 THEN <<"heart_rate_elevated", "medium">>
               ELSE IF h < 700 THEN <<"heart_rate_low", "medium">>
               ELSE <<"heart_rate_elevated", "low">>
    IN  [sim   |-> s1,
         event |-> HealthEvent(cls[1], RoundTo(h, 10), "bpm", cls[2], "None",
                               NoneNum, <<>>, NoneNum)]

generate_mood_event(s, noise) ==
    LET glucose_effect == IF s.current_glucose < 35000 THEN -5000
                          ELSE IF s.current_glucose < 40000 THEN -3000
                          ELSE IF s.current_glucose > 110000 THEN -2000
                          ELSE 0
        activity_effect == s.current_activity * 2
        stress_effect   == -(s.current_stress * 3)
        sleep_effect    == IF s.sleep_state = "deep_sleep" THEN 2000
                           ELSE IF s.sleep_state = "light_sleep" THEN -1000
                           ELSE 0
        mood_change == noise + glucose_effect + activity_effect + stress_effect
                       + sleep_effect
        m   == Clamp(0, UnitMax, s.current_mood + mood_change)
        s1  == [s EXCEPT !.current_mood = m]
        urgency == IF m < 2000 THEN "high" ELSE IF m < 3000 THEN "medium" ELSE "low"
        tags == TagNames(<< <<s.current_glucose < 40000, "hypoglycemia_symptom">>,
                            <<s.current_stress > 700, "high_stress">> >>)
    IN  [sim   |-> s1,
         event |-> HealthEvent("mood_indicator", RoundTo(m, 100), "normalized_score",
                               urgency, "stable",
                               IF m < 4000 THEN RoundDiv(10000 - m, 10) ELSE 200,
                               tags, calculate_health_score(s1))]

generate_medication_event(s, elapsed) ==
    LET hours_since  == 1 + elapsed
        base_urgency == IF hours_since > 5 THEN "high"
                        ELSE IF hours_since > 4 THEN "medium"
                        ELSE "low"
        urgency == IF s.current_glucose > 110000
                       THEN (IF base_urgency = "high" THEN "critical" ELSE "high")
                   ELSE IF s.current_glucose > 90000
                       THEN (IF base_urgency = "medium" THEN "high" ELSE base_urgency)
                   ELSE base_urgency
        tags == TagNames(<< <<s.current_glucose > 90000, "hyperglycemia_present">> >>)
    IN  [sim   |-> s,
         event |-> HealthEvent("medication_due", hours_since, "hours_since_last_dose",
                               urgency, "stable",
                               IF hours_since > 5 THEN 300 ELSE 100,
                               tags, calculate_health_score(s)),
         base_urgency |-> base_urgency]

generate_asthma_risk_event(s, noise, resp_up, resp_down) ==
    LET pollen_effect      == s.environment.pollen_count * 4
        air_quality_effect == (1000 - s.environment.air_quality) * 3
        activity_effect    == s.current_activity * 2
        risk_change == noise + pollen_effect + air_quality_effect + activity_effect
        r    == Clamp(0, UnitMax, s.asthma_risk_level + risk_change)
        rr0  == IF r > 6000 THEN s.current_respiratory_rate + resp_up
                ELSE IF r < 3000 THEN s.current_respiratory_rate + resp_down
                ELSE s.current_respiratory_rate
        rr   == Clamp(RespMin, RespMax, rr0)
        s1   == [s EXCEPT !.asthma_risk_level = r, !.current_respiratory_rate = rr]
        urgency == IF r > 7000 THEN "high" ELSE IF r > 5000 THEN "medium" ELSE "low"
        tags == TagNames(<< <<s.environment.pollen_count > 600, "high_pollen">>,
                            <<s.environment.air_quality < 500, "poor_air_quality">>,
                            <<rr > 280, "elevated_respiratory_rate">> >>)
    IN  [sim   |-> s1,
         event |-> HealthEvent("asthma_risk", RoundTo(r, 100), "risk_score", urgency,
                               IF risk_change > 1000 THEN "rising"
                               ELSE IF risk_change < -1000 THEN "falling"
                               ELSE "stable",
                               RoundDiv(r, 10), tags, calculate_health_score(s1))]

generate_oxygen_saturation_event(s, noise) ==
    LET activity_effect    == -(s.current_activity * 5)
        respiratory_effect == -((s.current_respiratory_rate - 220) * 100)
        change == noise + activity_effect + respiratory_effect
        o    == Clamp(Spo2Min, Spo2Max, s.current_spo2 + change)
        s1   == [s EXCEPT !.current_spo2 = o]
        urgency == IF o < 950000 THEN "high" ELSE IF o < 970000 THEN "medium" ELSE "low"
        tags == TagNames(<< <<s.current_respiratory_rate > 280, "elevated_respiratory_rate">>,
                            <<s.asthma_risk_level > 6000, "asthma_risk">> >>)
    IN  [sim   |-> s1,
         event |-> HealthEvent("oxygen_saturation", RoundTo(o, 1000), "%", urgency,
                               "stable",
                               IF o < 970000 THEN RoundDiv(970000 - o, 50) ELSE 100,
                               tags, calculate_health_score(s1))]

\* activity_base by hour; hour 22 is taken by the wind-down branch, so the
\* sleep window is hour >= 23 or hour <= 6
ActivityBase(hour) ==
    IF (7 <= hour /\ hour <= 8) \/ (15 <= hour /\ hour <= 17) THEN 700
    ELSE IF 12 <= hour /\ hour <= 13 THEN 400
    ELSE IF 20 <= hour /\ hour <= 22 THEN 300
    ELSE IF 22 <= hour \/ hour <= 6 THEN 100
    ELSE 500
SleepWindow(hour) ==
    /\ ~((7 <= hour /\ hour <= 8) \/ (15 <= hour /\ hour <= 17))
    /\ ~(12 <= hour /\ hour <= 13)
    /\ ~(20 <= hour /\ hour <= 22)
    /\ (22 <= hour \/ hour <= 6)

\* the high-activity nudge of generate_activity_event
MutNudgeEveryGlucose(glucose) == glucose - 3000
ActivityNudge(glucose) == IF glucose > 50000 THEN glucose - 3000 ELSE glucose

\* deep: random.random() > 0.3 of the sleep window; wake: random.random() > 0.7
generate_activity_event(s, hour, change, deep, wake) ==
    LET sleep1 == IF SleepWindow(hour)
                  THEN (IF deep THEN "deep_sleep" ELSE "light_sleep")
                  ELSE s.sleep_state
        a0     == Clamp(0, ActivityMax, ActivityBase(hour) + change)
        a      == IF sleep1 # "awake" THEN 100 ELSE a0
        sleep2 == IF sleep1 # "awake" /\ wake THEN "awake" ELSE sleep1
        g      == IF a > 800 THEN ActivityNudge(s.current_glucose)
                  ELSE s.current_glucose
        s1     == [s EXCEPT !.current_activity = a, !.sleep_state = sleep2,
                            !.current_glucose = g]
        tags   == TagNames(<< <<a > 800, "high_activity">> >>)
    IN  [sim   |-> s1,
         event |-> HealthEvent("activity_level", RoundTo(a, 10), "normalized_score",
                               "low", "stable", 100, tags,
                               calculate_health_score(s1))]


-----------------------------------------------------------------------------
(* Construction *)

\* baseline_glucose values a profile may carry (models.py sets no range):
\* 5.0 and 5.5 (the derived defaults), 2.0 and 20.0 (explicit overrides)
ProfileGlucose == {55000, 200000}

StartHours == {6, 11, 18}

\* MedicalDataSimulator.__init__
NewSimulator(child_id, baseline_glucose) ==
    [child_id                 |-> child_id,
     baseline_glucose         |-> baseline_glucose,
     baseline_heart_rate      |-> 900,
     baseline_spo2            |-> 980000,
     current_glucose          |-> baseline_glucose,
     current_heart_rate       |-> 900,
     current_mood             |-> 7000,
     current_activity         |-> 500,
     current_spo2             |-> 980000,
     current_respiratory_rate |-> 220,
     current_stress           |-> 300,
     asthma_risk_level        |-> 2000,
     sleep_state              |-> "awake",
     glucose_history          |-> <<>>,
     heart_rate_history       |-> <<>>,
     event_history            |-> <<>>,
     stats                    |-> [total_events |-> 0, danger_events |-> 0,
                                   monitor_events |-> 0, safe_events |-> 0,
                                   anomalies_detected |-> 0],
     environment              |-> [air_quality |-> 800, pollen_count |-> 300]]

NoResult == [kind |-> "none"]
EventResult(e) == [kind |-> "event", event |-> e]
ErrorResult(e) == [kind |-> "error", error |-> e]
NoArgs == [fn |-> "none"]
Idle == [state |-> "idle"]

Init ==
    /\ \E g \in ProfileGlucose : sim = NewSimulator("child_1", g)
    /\ startHour \in StartHours
    /\ clock = 0
    /\ peer = NewSimulator("child_2", 55000)
    /\ files = NoFiles
    /\ run = Idle
    /\ args = NoArgs
    /\ last = NoResult
    /\ op = "init"
    /\ steps = 0

-----------------------------------------------------------------------------
(* Operations *)

\* time passes between calls
Tick ==
    /\ clock < MaxClock
    /\ clock' = clock + 1
    /\ UNCHANGED <<sim, peer, startHour, files, run, args, last, op, steps>>

Ran(name, r) ==
    /\ steps < MaxSteps
    /\ steps' = steps + 1
    /\ sim' = r.sim
    /\ last' = EventResult(r.event)
    /\ op' = name
    /\ UNCHANGED <<peer, startHour, clock, files, run, args>>

GlucoseEvent ==
    \E n \in GlucoseNoise :
        Ran("generate_glucose_event",
            generate_glucose_event(sim, Hour(startHour, clock), clock, n))

HeartRateEvent ==
    \E n \in HeartRateNoise :
        Ran("generate_heart_rate_event", generate_heart_rate_event(sim, n))

MoodEvent ==
    \E n \in MoodNoise :
        Ran("generate_mood_event", generate_mood_event(sim, n))

MedicationEvent ==
    Ran("generate_medication_event", generate_medication_event(sim, clock))

AsthmaRiskEvent ==
    \E n \in RiskNoise, up \in RespUp, down \in RespDown :
        Ran("generate_asthma_risk_event",
            generate_asthma_risk_event(sim, n, up, down))

OxygenSaturationEvent ==
    \E n \in Spo2Noise :
        Ran("generate_oxygen_saturation_event",
            generate_oxygen_saturation_event(sim, n))

ActivityEvent ==
    \E n \in ActivityNoise, deep \in BOOLEAN, wake \in BOOLEAN :
        Ran("generate_activity_event",
            generate_activity_event(sim, Hour(startHour, clock), n, deep, wake))

Next ==
    \/ Tick
    \/ GlucoseEvent
    \/ HeartRateEvent
    \/ MoodEvent
    \/ MedicationEvent
    \/ AsthmaRiskEvent
    \/ OxygenSaturationEvent
    \/ ActivityEvent

Spec == Init /\ [][Next]_vars

-----------------------------------------------------------------------------
(* Scenarios (src/backend/scenarios.py) *)

\* the keys of the SCENARIOS registry
SCENARIOS ==
    {"hypoglycemia_episode", "hyperglycemia_spike", "asthma_trigger",
     "anxiety_episode", "healthy_reading", "healthy_school_day", "sick_day",
     "active_play_day", "stressful_test_day"}

EpisodeScenarios ==
    {"hypoglycemia_episode", "hyperglycemia_spike", "asthma_trigger",
     "anxiety_episode", "healthy_reading"}

\* get_scenario: the definition's id, or the ValueError it raises
MutGetScenarioFallback(scenario_id) ==
    IF scenario_id \notin SCENARIOS THEN "hypoglycemia_episode" ELSE scenario_id
get_scenario(scenario_id) ==
    IF scenario_id \notin SCENARIOS THEN "ValueError" ELSE scenario_id

\* scenarios.run_scenario: the default event count by category
DefaultNumEvents(scenario_id, num_events) ==
    IF num_events = NoneNum
    THEN (IF scenario_id \in EpisodeScenarios THEN 5 ELSE 12)
    ELSE num_events

\* _create_event: value rounded to 2 decimals, health score to 1, anomaly
\* score to 3 (unit: the fixed-point unit of 0.01 of the value)
create_event(event_type, value, cent, unit, urgency, safety_status, health_score, metadata, trend, anomaly_score, reasoning, correlations) ==
    [event_type |-> event_type, value |-> RoundTo(value, cent), unit |-> unit,
     urgency |-> urgency, safety_status |-> safety_status,
     health_score |-> health_score, metadata |-> metadata, trend |-> trend,
     anomaly_score |-> anomaly_score, llm_reasoning |-> reasoning,
     correlation_tags |-> correlations]

\* random.uniform draws of generate_hypoglycemia_episode
DropDraw == {7500}               \* uniform(0.5, 1.0)
CriticalDraw == {32000, 38000}   \* uniform(3.2, 3.8)
LowMoodDraw == {3000}            \* uniform(0.2, 0.4)
RecoveryDraw == {50000}          \* uniform(4.5, 5.5)

\* The generator's frame: pc is the yield it will run to next, i the index
\* of the critical-phase loop, mood the draw made with the glucose draw.
StartFrame == [pc |-> "phase1", i |-> 0, mood |-> 0]

HypoInitialDrop(baseline_glucose, drop) ==
    create_event("glucose_drop", baseline_glucose - drop, 100, "mmol/L", "medium",
                 "MONITOR", 650, [phase |-> "initial_drop", device |-> "cgm"],
                 "falling", 400,
                 "Glucose trending downward. Monitor for hypoglycemia symptoms.",
                 <<"trending_low">>)
MutHypoCriticalMonitor(glucose, i) ==
    create_event("glucose_drop", glucose, 100, "mmol/L", "critical", "MONITOR", 350,
                 [phase |-> "critical", requires_intervention |-> TRUE],
                 IF i = 0 THEN "falling" ELSE "stable", 850,
                 "Critical hypoglycemia detected. Immediate intervention needed - provide fast-acting glucose.",
                 <<"hypoglycemia", "low_mood", "fatigue">>)
HypoCritical(glucose, i) ==
    create_event("glucose_drop", glucose, 100, "mmol/L", "critical", "DANGER", 350,
                 [phase |-> "critical", requires_intervention |-> TRUE],
                 IF i = 0 THEN "falling" ELSE "stable", 850,
                 "Critical hypoglycemia detected. Immediate intervention needed - provide fast-acting glucose.",
                 <<"hypoglycemia", "low_mood", "fatigue">>)
HypoMoodDrop(mood) ==
    create_event("mood_indicator", mood, 100, "normalized_score", "high", "MONITOR",
                 400, [context |-> "hypoglycemia_effect"], "stable", 100,
                 "Low mood likely caused by hypoglycemia. Child may feel shaky, confused, or irritable.",
                 <<"hypoglycemia_symptom">>)
HypoRecovery(glucose) ==
    create_event("glucose_normal", glucose, 100, "mmol/L", "low", "SAFE", 750,
                 [phase |-> "recovery"], "rising", 200,
                 "Glucose recovering to normal range after treatment.",
                 <<"recovering">>)

\* One next() of generate_hypoglycemia_episode(child_profile, num_events):
\* the event yielded and the frame after it.
generate_hypoglycemia_episode(frame, baseline_glucose, num_events, drop, critical, mood, recovery) ==
    IF frame.pc = "phase1" THEN
        [event |-> HypoInitialDrop(baseline_glucose, drop),
         frame |-> [frame EXCEPT !.pc = IF 0 < num_events - 3 THEN "critical"
                                        ELSE "recovery"]]
    ELSE IF frame.pc = "critical" THEN
        [event |-> HypoCritical(critical, frame.i),
         frame |-> [frame EXCEPT !.pc = "mood", !.mood = mood]]
    ELSE IF frame.pc = "mood" THEN
        [event |-> HypoMoodDrop(frame.mood),
         frame |-> [pc |-> IF frame.i + 1 < num_events - 3 THEN "critical"
                           ELSE "recovery",
                    i |-> frame.i + 1, mood |-> 0]]
    ELSE
        [event |-> HypoRecovery(recovery),
         frame |-> [frame EXCEPT !.pc = "done"]]

\* random.uniform draws of generate_hyperglycemia_spike
RiseDraw == {100000}             \* uniform(9.0, 11.0)
PeakDraw == {125000}             \* uniform(11.0, 14.0)
DeclineDraw == {75000, 95000}    \* uniform(7.0, 10.0)

MutHyperRisingClassified(glucose) ==
    create_event("glucose_spike", glucose, 100, "mmol/L", "medium", "SAFE", 600,
                 [phase |-> "rising", meal_effect |-> 25], "rising", 500,
                 "Slightly elevated glucose - within acceptable range",
                 <<"post_meal">>)
HyperRising(glucose) ==
    create_event("glucose_spike", glucose, 100, "mmol/L", "medium", "MONITOR", 600,
                 [phase |-> "rising", meal_effect |-> 25], "rising", 500,
                 "Post-meal glucose spike detected. This is typical after eating.",
                 <<"post_meal">>)
HyperPeak(glucose) ==
    create_event("glucose_spike", glucose, 100, "mmol/L", "high", "MONITOR", 500,
                 [phase |-> "peak", above_target |-> TRUE], "stable", 700,
                 "Glucose at peak. Consider insulin correction if prescribed.",
                 <<"hyperglycemia", "needs_monitoring">>)
\* the declining phase: glucose = max(draw - i * 1.5, 5.5), and the type,
\* urgency, status, reasoning and tags chosen from it
HyperDeclining(draw, i) ==
    LET glucose == Max(draw - i * 15000, 55000)
    IN  create_event(IF glucose > 90000 THEN "glucose_spike" ELSE "glucose_normal",
                     glucose, 100, "mmol/L",
                     IF glucose < 90000 THEN "low" ELSE "medium",
                     IF glucose < 90000 THEN "SAFE" ELSE "MONITOR",
                     700 + i * 50, [phase |-> "declining"], "falling",
                     300 - i * 100,
                     IF glucose < 90000 THEN "Glucose returning to normal range."
                     ELSE "Glucose still elevated but trending down.",
                     IF glucose < 90000 THEN <<"recovering">>
                     ELSE <<"still_elevated">>)

\* One next() of generate_hyperglycemia_spike(child_profile, num_events)
generate_hyperglycemia_spike(frame, num_events, rise, peak, decline) ==
    IF frame.pc = "phase1" THEN
        [event |-> HyperRising(rise), frame |-> [frame EXCEPT !.pc = "peak"]]
    ELSE IF frame.pc = "peak" THEN
        [event |-> HyperPeak(peak),
         frame |-> [frame EXCEPT !.pc = IF 0 < num_events - 2 THEN "declining"
                                        ELSE "done"]]
    ELSE
        [event |-> HyperDeclining(decline, frame.i),
         frame |-> [frame EXCEPT !.i = @ + 1,
                                 !.pc = IF frame.i + 1 < num_events - 2
                                        THEN "declining" ELSE "done"]]

\* the draws one next() of a scenario generator may make
ScenarioDraws ==
    [drop : DropDraw, critical : CriticalDraw, mood : LowMoodDraw,
     recovery : RecoveryDraw, rise : RiseDraw, peak : PeakDraw,
     decline : DeclineDraw]

\* scenarios.run_scenario: one next() of scenario.generate_events(child_profile,
\* num_events), for the two glucose episodes
ModelledScenarios == {"hypoglycemia_episode", "hyperglycemia_spike"}
scenario_generate_events(scenario_id, frame, baseline_glucose, num_events, d) ==
    IF scenario_id = "hyperglycemia_spike"
    THEN generate_hyperglycemia_spike(frame, num_events, d.rise, d.peak, d.decline)
    ELSE generate_hypoglycemia_episode(frame, baseline_glucose, num_events,
                                       d.drop, d.critical, d.mood, d.recovery)

\* The scenario ids the model requests: a scenario of the registry and two
\* ids that are not in it.
RequestedIds == {"hypoglycemia_episode", "not_a_real_id", ""}
RequestedNumEvents == {NoneNum, 3, 5}

\* the statistics update of run_scenario / run_scenario_stream
CountEvent(stats, status) ==
    [stats EXCEPT !.total_events  = @ + 1,
                  !.danger_events  = IF status = "DANGER" THEN @ + 1 ELSE @,
                  !.monitor_events = IF status = "MONITOR" THEN @ + 1 ELSE @,
                  !.safe_events    = IF status \notin {"DANGER", "MONITOR"}
                                     THEN @ + 1 ELSE @]

\* the simulator instance a method is called on, and its update
Instances == {"sim", "peer"}
Self(self) == IF self = "sim" THEN sim ELSE peer
SetSelf(self, s) ==
    IF self = "sim" THEN sim' = s /\ peer' = peer ELSE peer' = s /\ sim' = sim

\* The call: get_scenario raises ValueError before anything is touched.
ScenarioCall(self, mode, name, ids, nums, saves) ==
    /\ run.state = "idle"
    /\ steps < MaxRuns
    /\ steps' = steps + 1
    /\ op' = name
    /\ \E id \in ids, n \in nums, save \in saves :
          /\ args' = [fn |-> name, self |-> self, scenario_id |-> id,
                      num_events |-> n, save_to_history |-> save, io |-> "none"]
          /\ IF get_scenario(id) = "ValueError"
             THEN /\ last' = ErrorResult("ValueError")
                  /\ run' = run
             ELSE /\ last' = NoResult
                  /\ run' = [state |-> "running", mode |-> mode, self |-> self,
                             scenario_id |-> get_scenario(id),
                             num_events |-> DefaultNumEvents(get_scenario(id), n),
                             save_to_history |-> save,
                             frame |-> StartFrame, events |-> <<>>,
                             call |-> args']
    /\ UNCHANGED <<sim, peer, startHour, clock, files>>

\* One iteration of the loop over scenarios.run_scenario(...): the event is
\* tagged and counted, then appended to the history file; an exception of
\* the append leaves the loop and the call.  args.io records the outcome of
\* the write this iteration attempted ("none": no write).
ScenarioStep(selves, mode, name) ==
    /\ run.state = "running"
    /\ run.mode = mode
    /\ run.self \in selves
    /\ run.frame.pc # "done"
    /\ \E d \in ScenarioDraws, io \in IoOutcomes :
          LET self  == run.self
              inst  == Self(self)
              y     == scenario_generate_events(run.scenario_id, run.frame,
                                                inst.baseline_glucose,
                                                run.num_events, d)
              event == TagChild(y.event, inst.child_id)
              w     == IF run.save_to_history
                       THEN append_to_history(files, inst.child_id, event, io)
                       ELSE [files |-> files, raises |-> "None"]
          IN  /\ SetSelf(self, [inst EXCEPT
                                   !.stats = CountEvent(@, event.safety_status)])
              /\ files' = w.files
              /\ args' = [run.call EXCEPT !.io = IF run.save_to_history THEN io
                                                 ELSE "none"]
              /\ IF w.raises # "None"
                 THEN /\ run' = Idle
                      /\ last' = ErrorResult(w.raises)
                 ELSE /\ run' = [run EXCEPT !.frame = y.frame,
                                            !.events = Append(@, event)]
                      /\ last' = IF mode = "stream" THEN EventResult(event)
                                 ELSE last
    /\ op' = name
    /\ UNCHANGED <<startHour, clock, steps>>

\* The generator is exhausted: run_scenario returns the list, the stream ends.
ScenarioEnd(selves, mode, name) ==
    /\ run.state = "running"
    /\ run.mode = mode
    /\ run.self \in selves
    /\ run.frame.pc = "done"
    /\ run' = Idle
    /\ last' = [kind |-> IF mode = "stream" THEN "end" ELSE "events",
                events |-> run.events, scenario_id |-> run.scenario_id,
                num_events |-> run.num_events]
    /\ op' = name
    /\ args' = run.call
    /\ UNCHANGED <<sim, peer, startHour, clock, files, steps>>

RunScenarioCall == ScenarioCall("sim", "list", "run_scenario", RequestedIds, RequestedNumEvents, BOOLEAN)
RunScenarioStep == ScenarioStep({"sim"}, "list", "run_scenario")
RunScenarioReturn == ScenarioEnd({"sim"}, "list", "run_scenario")
RunScenarioStreamCall == ScenarioCall("sim", "stream", "run_scenario_stream", RequestedIds, RequestedNumEvents, BOOLEAN)
RunScenarioStreamStep == ScenarioStep({"sim"}, "stream", "run_scenario_stream")
RunScenarioStreamEnd == ScenarioEnd({"sim"}, "stream", "run_scenario_stream")

NextScenario ==
    \/ RunScenarioCall
    \/ RunScenarioStep
    \/ RunScenarioReturn
    \/ RunScenarioStreamCall
    \/ RunScenarioStreamStep
    \/ RunScenarioStreamEnd

InitScenario == Init /\ startHour = 11

SpecScenario == InitScenario /\ [][NextScenario]_vars

-----------------------------------------------------------------------------
(* Safety classification *)

MutRulesIgnoreUrgency(event) ==
    IF event.event_type = "glucose_drop" THEN
        IF event.value < 35000 THEN
            <<"DANGER", "Critical hypoglycemia detected - immediate intervention required">>
        ELSE IF event.value < 40000 THEN
            <<"DANGER", "Low blood glucose - intervention needed">>
        ELSE <<"MONITOR", "Glucose trending low - monitor closely">>
    ELSE IF event.event_type = "glucose_spike" THEN
        IF event.value > 140000 THEN
            <<"DANGER", "Severe hyperglycemia - medical attention needed">>
        ELSE IF event.value > 110000 THEN
            <<"MONITOR", "Elevated blood glucose - monitor and consider insulin">>
        ELSE <<"SAFE", "Slightly elevated glucose - within acceptable range">>
    ELSE IF event.event_type = "heart_rate_elevated" THEN
        IF event.value > 1300 THEN
            <<"MONITOR", "Elevated heart rate - may indicate stress or medical event">>
        ELSE <<"SAFE", "Heart rate within normal range">>
    ELSE IF event.event_type = "mood_indicator" THEN
        IF event.value < 3000 THEN
            <<"MONITOR", "Low mood detected - may indicate hypoglycemia or fatigue">>
        ELSE <<"SAFE", "Mood indicators normal">>
    ELSE <<"SAFE", "Event within normal parameters">>
\* _rule_based_analysis(event): <<status, reasoning>>; the event's value is
\* in the unit of its channel
rule_based_analysis(event) ==
    IF event.event_type = "glucose_drop" THEN
        IF event.value < 35000 THEN
            <<"DANGER", "Critical hypoglycemia detected - immediate intervention required">>
        ELSE IF event.value < 40000 THEN
            <<"DANGER", "Low blood glucose - intervention needed">>
        ELSE <<"MONITOR", "Glucose trending low - monitor closely">>
    ELSE IF event.event_type = "glucose_spike" THEN
        IF event.value > 140000 THEN
            <<"DANGER", "Severe hyperglycemia - medical attention needed">>
        ELSE IF event.value > 110000 THEN
            <<"MONITOR", "Elevated blood glucose - monitor and consider insulin">>
        ELSE <<"SAFE", "Slightly elevated glucose - within acceptable range">>
    ELSE IF event.event_type = "heart_rate_elevated" THEN
        IF event.value > 1300 THEN
            <<"MONITOR", "Elevated heart rate - may indicate stress or medical event">>
        ELSE <<"SAFE", "Heart rate within normal range">>
    ELSE IF event.event_type = "mood_indicator" THEN
        IF event.value < 3000 THEN
            <<"MONITOR", "Low mood detected - may indicate hypoglycemia or fatigue">>
        ELSE <<"SAFE", "Mood indicators normal">>
    ELSE IF event.urgency = "critical" THEN
        <<"DANGER", "Critical event detected - immediate attention required">>
    ELSE IF event.urgency = "high" THEN
        <<"MONITOR", "High urgency event - monitor closely">>
    ELSE <<"SAFE", "Event within normal parameters">>

\* the members of the SafetyStatus enum
SafetyStatus == {"SAFE", "DANGER", "MONITOR"}

\* What the remote call does, step by step, for an outcome of the network:
\* the exception raised and the try block it is raised in, or the parsed
\* analysis.  self.session is None outside the context manager, so
\* self.session.post raises AttributeError.
RemoteAttempt(remote) ==
    IF remote.session = "None" THEN [raises |-> "AttributeError", in |-> "outer"]
    ELSE IF remote.transport # "ok" THEN [raises |-> remote.transport, in |-> "outer"]
    ELSE IF remote.http_status # 200 THEN [raises |-> "", in |-> "not_200"]
    ELSE IF remote.body = "not_json" THEN [raises |-> "ContentTypeError", in |-> "outer"]
    ELSE IF remote.body = "no_choices" THEN [raises |-> "KeyError", in |-> "outer"]
    ELSE IF remote.content = "not_json" THEN [raises |-> "JSONDecodeError", in |-> "inner"]
    ELSE IF remote.content = "not_object" THEN [raises |-> "TypeError", in |-> "inner"]
    ELSE IF remote.content = "no_status" THEN [raises |-> "KeyError", in |-> "inner"]
    ELSE IF remote.status \notin SafetyStatus THEN [raises |-> "KeyError", in |-> "inner"]
    ELSE [raises |-> "", in |-> "ok"]

\* except (json.JSONDecodeError, KeyError, ValueError)
InnerExcept(e) == e \in {"JSONDecodeError", "KeyError", "ValueError"}
\* except Exception
MutOuterExceptClientError(e) == e \in {"ClientConnectorError", "TimeoutError"}
OuterExcept(e) ==
    e \in {"AttributeError", "ClientConnectorError", "TimeoutError",
           "ContentTypeError", "KeyError", "TypeError", "JSONDecodeError",
           "ValueError"}

Classified(r) == [kind |-> "classified", status |-> r[1], reasoning |-> r[2]]
RaisedResult(e) == [kind |-> "raised", error |-> e]

\* analyze_with_llm(event) for a simulator with the given api_key and
\* session, under the given outcome of the remote call
analyze_with_llm(event, remote) ==
    IF remote.api_key = "None" THEN Classified(rule_based_analysis(event))
    ELSE LET a == RemoteAttempt(remote)
         IN  IF a.in = "ok" THEN
                 Classified(<<remote.status,
                              IF remote.reasoning = "None"
                              THEN "No reasoning provided" ELSE remote.reasoning>>)
             ELSE IF a.in = "not_200" THEN Classified(rule_based_analysis(event))
             ELSE IF a.in = "inner" /\ InnerExcept(a.raises) THEN
                 Classified(rule_based_analysis(event))
             ELSE IF OuterExcept(a.raises) THEN
                 Classified(rule_based_analysis(event))
             ELSE RaisedResult(a.raises)

\* The outcomes of the remote call the model draws from
GoodRemote ==
    [api_key |-> "key", session |-> "open", transport |-> "ok", http_status |-> 200,
     body |-> "json", content |-> "object", status |-> "SAFE",
     reasoning |-> "remote reasoning"]
RemoteOutcomes ==
    {[GoodRemote EXCEPT !.status = st, !.reasoning = r] :
        st \in SafetyStatus, r \in {"remote reasoning", "None"}}
    \cup {[GoodRemote EXCEPT !.api_key = "None"],
          [GoodRemote EXCEPT !.api_key = "None", !.session = "None"],
          [GoodRemote EXCEPT !.session = "None"],
          [GoodRemote EXCEPT !.transport = "ClientConnectorError"],
          [GoodRemote EXCEPT !.transport = "TimeoutError"],
          [GoodRemote EXCEPT !.http_status = 500],
          [GoodRemote EXCEPT !.http_status = 429],
          [GoodRemote EXCEPT !.body = "not_json"],
          [GoodRemote EXCEPT !.body = "no_choices"],
          [GoodRemote EXCEPT !.content = "not_json"],
          [GoodRemote EXCEPT !.content = "not_object"],
          [GoodRemote EXCEPT !.content = "no_status"],
          [GoodRemote EXCEPT !.status = "safe"],
          [GoodRemote EXCEPT !.status = "UNKNOWN"]}

RemoteFailed(remote) ==
    \/ remote.api_key = "None"
    \/ remote.session = "None"
    \/ remote.transport # "ok"
    \/ remote.http_status # 200
    \/ remote.body # "json"
    \/ remote.content # "object"
    \/ remote.status \notin SafetyStatus

\* The events the model classifies: every (type, value, urgency) over the
\* thresholds of the fallback rules
ClassifiedTypes ==
    {"glucose_drop", "glucose_spike", "glucose_normal", "heart_rate_elevated",
     "heart_rate_low", "mood_indicator", "medication_due", "asthma_risk"}
ClassifiedValues(t) ==
    IF t \in {"glucose_drop", "glucose_spike", "glucose_normal"}
        THEN {34900, 35000, 39900, 40000, 110000, 110100, 140000, 140100}
    ELSE IF t \in {"heart_rate_elevated", "heart_rate_low"} THEN {650, 1300, 1310}
    ELSE IF t = "mood_indicator" THEN {2900, 3000}
    ELSE {0, 6}
Urgencies == {"low", "medium", "high", "critical"}

InitClassify ==
    /\ sim = NewSimulator("child_1", 55000)
    /\ startHour = 11
    /\ clock = 0
    /\ peer = NewSimulator("child_2", 55000)
    /\ files = NoFiles
    /\ run = Idle
    /\ \E t \in ClassifiedTypes, u \in Urgencies, r \in RemoteOutcomes :
         \E v \in ClassifiedValues(t) :
            args = [fn |-> "analyze_with_llm",
                    event |-> HealthEvent(t, v, "", u, "stable", 100, <<>>, 800),
                    remote |-> r]
    /\ last = NoResult
    /\ op = "init"
    /\ steps = 0

AnalyzeWithLLM ==
    /\ op = "init"
    /\ args.fn = "analyze_with_llm"
    /\ last' = analyze_with_llm(args.event, args.remote)
    /\ op' = "analyze_with_llm"
    /\ UNCHANGED <<sim, peer, startHour, clock, files, run, args, steps>>

NextClassify == AnalyzeWithLLM

SpecClassify == InitClassify /\ [][NextClassify]_vars

-----------------------------------------------------------------------------
(* The weighted dispatcher and the generate-classify-persist pipeline *)

MaxCalls == 2

\* event_generators, in the order of the list, and their weights (percent)
Channels ==
    <<"glucose", "heart_rate", "mood", "medication", "asthma_risk",
      "oxygen_saturation", "activity">>
ChannelWeights == <<35, 20, 15, 10, 8, 7, 5>>

\* what random.choices(event_generators, weights) can return, and the draws
\* the chosen generator then makes
RandomDraws ==
    {[channel |-> "glucose", noise |-> n] : n \in GlucoseNoise}
    \cup {[channel |-> "heart_rate", noise |-> n] : n \in HeartRateNoise}
    \cup {[channel |-> "mood", noise |-> n] : n \in MoodNoise}
    \cup {[channel |-> "medication"]}
    \cup {[channel |-> "asthma_risk", noise |-> n, up |-> ud[1], down |-> ud[2]] :
             n \in RiskNoise, ud \in {<<20, -20>>, <<50, 10>>}}
    \cup {[channel |-> "oxygen_saturation", noise |-> n] : n \in Spo2Noise}
    \cup {[channel |-> "activity", noise |-> n, deep |-> dw[1], wake |-> dw[2]] :
             n \in ActivityNoise, dw \in {<<TRUE, FALSE>>, <<FALSE, TRUE>>}}

\* generator(): the chosen generator's new state and event
run_generator(s, hour, elapsed, d) ==
    LET Returned(r) == [sim |-> r.sim, event |-> r.event]
    IN  Returned(
          CASE d.channel = "glucose" ->
                    generate_glucose_event(s, hour, elapsed, d.noise)
            [] d.channel = "heart_rate" -> generate_heart_rate_event(s, d.noise)
            [] d.channel = "mood" -> generate_mood_event(s, d.noise)
            [] d.channel = "medication" -> generate_medication_event(s, elapsed)
            [] d.channel = "asthma_risk" ->
                    generate_asthma_risk_event(s, d.noise, d.up, d.down)
            [] d.channel = "oxygen_saturation" ->
                    generate_oxygen_saturation_event(s, d.noise)
            [] OTHER ->
                    generate_activity_event(s, hour, d.noise, d.deep, d.wake))

\* the statistics update of generate_random_event: the event is counted
\* under its safety_status (None at this point: safe_events), and as an
\* anomaly when its anomaly score exceeds 0.7
CountGenerated(stats, event) ==
    [CountEvent(stats, event.safety_status) EXCEPT
        !.anomalies_detected = IF event.anomaly_score > 700 THEN @ + 1 ELSE @]

generate_random_event(s, hour, elapsed, d) ==
    LET Recorded(r) ==
            [sim   |-> [r.sim EXCEPT
                           !.stats = CountGenerated(@, r.event),
                           !.event_history = DequeAppend(@, r.event, EventHistoryCap)],
             event |-> r.event]
    IN  Recorded(run_generator(s, hour, elapsed, d))

\* 0.4 * sin((hour - 6) * pi / 12), in 1e-3
PollenWave(hour) ==
    LET quarter == <<0, 104, 200, 283, 346, 386, 400>>
        k == (hour - 6) % 24
    IN  IF k <= 6 THEN quarter[k + 1]
        ELSE IF k <= 12 THEN quarter[13 - k]
        ELSE IF k <= 18 THEN -quarter[k - 11]
        ELSE -quarter[25 - k]

PollenNoise == {100}             \* uniform(-0.1, 0.1)
AirQualityNoise == {-200}        \* uniform(-0.2, 0.2)

\* _update_environment
update_environment(s, hour, pollen_noise, air_noise) ==
    [s EXCEPT !.environment =
        [air_quality  |-> Clamp(0, 1000, 700 + air_noise),
         pollen_count |-> Clamp(0, 1000, 300 + PollenWave(hour) + pollen_noise)]]

\* the second statistics update, of generate_and_analyze_event
CountAnalyzed(stats, status) ==
    [stats EXCEPT !.danger_events  = IF status = "DANGER" THEN @ + 1 ELSE @,
                  !.monitor_events = IF status = "MONITOR" THEN @ + 1 ELSE @,
                  !.safe_events    = IF status \notin {"DANGER", "MONITOR"}
                                     THEN @ + 1 ELSE @]

\* event_dict["statistics"]
StatisticsSummary(stats) ==
    [total_events |-> stats.total_events, danger_count |-> stats.danger_events,
     monitor_count |-> stats.monitor_events, safe_count |-> stats.safe_events,
     anomalies_detected |-> stats.anomalies_detected]

\* the outcomes of the remote classifier the pipeline is run under
PipelineRemotes ==
    {[GoodRemote EXCEPT !.api_key = "None", !.session = "None"],
     [GoodRemote EXCEPT !.status = "DANGER"]}

\* generate_and_analyze_event from the classification on (lines 881-913): g
\* is the event just generated and the simulator that has counted it, remote
\* the outcome of the classifier's call, io the outcome of the write.  The
\* event in event_history is the object the analysis is written to, so the
\* history's last entry carries the status as well.
analyze_generated_event(g, fs, remote, save_to_history, io) ==
    LET child_id == g.sim.child_id
        saves == save_to_history /\ child_id \notin {"None", ""}
        \* lines 909-913: the conditional append and the return
        Saved(s1, event_dict, w) ==
            [sim |-> s1, files |-> w.files, raises |-> w.raises,
             result |-> IF w.raises = "None"
                        THEN [kind |-> "event_dict",
                              event |-> IF saves
                                        THEN TagChild(event_dict, child_id)
                                        ELSE event_dict]
                        ELSE ErrorResult(w.raises)]
        \* lines 896-907: asdict(event) and its statistics
        AsDict(s1, event_dict) ==
            Saved(s1, event_dict,
                  IF saves THEN append_to_history(fs, child_id, event_dict, io)
                  ELSE [files |-> fs, raises |-> "None"])
        Counted(s1, event) ==
            AsDict(s1, event @@ [statistics |-> StatisticsSummary(s1.stats)])
        \* lines 884-894: the analysis written to the event, and counted
        Updated(a, event) ==
            Counted([g.sim EXCEPT
                        !.stats = CountAnalyzed(@, a.status),
                        !.event_history = [@ EXCEPT ![Len(@)] = event]],
                    event)
        Analyzed(a) ==
            IF a.kind = "raised"
            THEN [sim |-> g.sim, files |-> fs, raises |-> a.error,
                  result |-> ErrorResult(a.error)]
            ELSE Updated(a, [g.event EXCEPT !.safety_status = a.status,
                                            !.llm_reasoning = a.reasoning])
    IN  \* line 882
        Analyzed(analyze_with_llm(g.event, remote))

\* generate_and_analyze_event(save_to_history) on simulator s with file
\* system fs; d: the draws (env: of _update_environment, gen: of the
\* dispatcher)
generate_and_analyze_event(s, fs, hour, elapsed, d, remote, save_to_history, io) ==
    \* lines 876-879, then the rest
    analyze_generated_event(
        generate_random_event(update_environment(s, hour, d.env.pollen, d.env.air),
                              hour, elapsed, d.gen),
        fs, remote, save_to_history, io)

\* The loop body of run_continuous after generate_and_analyze_event has
\* returned g: _append_to_history(event), then the wait.
persist_and_wait(g, io2) ==
    LET child_id == g.sim.child_id
        Appended(w) ==
            [sim |-> g.sim, files |-> w.files, raises |-> w.raises,
             result |-> IF w.raises = "None"
                        THEN [kind |-> "waiting",
                              event |-> TagChild(g.result.event, child_id)]
                        ELSE ErrorResult(w.raises)]
    IN  IF g.raises # "None"
        THEN g
        ELSE Appended(append_to_history(g.files, child_id, g.result.event, io2))

\* One iteration of the loop of run_continuous: generate_and_analyze_event()
\* with its default save_to_history = True, then _append_to_history(event),
\* then the wait.  Only KeyboardInterrupt is caught around the loop.
run_continuous_iteration(s, fs, hour, elapsed, d, remote, io1, io2) ==
    persist_and_wait(generate_and_analyze_event(s, fs, hour, elapsed, d, remote,
                                                TRUE, io1),
                     io2)

\* a call on instance self that returned or raised: r is what it did
Called(self, name, a, r) ==
    /\ steps < MaxCalls
    /\ steps' = steps + 1
    /\ SetSelf(self, r.sim)
    /\ files' = r.files
    /\ args' = a
    /\ last' = r.result
    /\ op' = name
    /\ UNCHANGED <<startHour, clock, run>>

EnvDraws == [pollen : PollenNoise, air : AirQualityNoise]

GenerateRandomEventOn(selves, draws) ==
    \E self \in selves, d \in draws :
        \E g \in {generate_random_event(Self(self), Hour(startHour, clock), clock, d)} :
            Called(self, "generate_random_event",
                   [fn |-> "generate_random_event", self |-> self,
                    channel |-> d.channel],
                   [sim |-> g.sim, files |-> files, result |-> EventResult(g.event)])

GenerateAndAnalyzeEventOn(selves, draws, remotes, saves) ==
    \E self \in selves, gen \in draws, env \in EnvDraws, remote \in remotes,
       save \in saves, io \in IoOutcomes :
        Called(self, "generate_and_analyze_event",
               [fn |-> "generate_and_analyze_event", self |-> self,
                save_to_history |-> save, remote |-> remote, io |-> io],
               generate_and_analyze_event(Self(self), files,
                                          Hour(startHour, clock), clock,
                                          [env |-> env, gen |-> gen],
                                          remote, save, io))

RunContinuousIterationOn(selves, draws, remotes) ==
    \E self \in selves, gen \in draws, env \in EnvDraws, remote \in remotes,
       io1 \in IoOutcomes, io2 \in IoOutcomes :
        Called(self, "run_continuous",
               [fn |-> "run_continuous", self |-> self, remote |-> remote,
                io1 |-> io1, io2 |-> io2],
               run_continuous_iteration(Self(self), files,
                                        Hour(startHour, clock), clock,
                                        [env |-> env, gen |-> gen],
                                        remote, io1, io2))

\* A session of one simulator (with a child id, or without one as the
\* simulator main() constructs): every method, in any order.
InitSession ==
    /\ \E c \in {"child_1", "None"} : sim = NewSimulator(c, 55000)
    /\ peer = NewSimulator("child_2", 55000)
    /\ startHour = 16
    /\ clock = 0
    /\ files = NoFiles
    /\ run = Idle
    /\ args = NoArgs
    /\ last = NoResult
    /\ op = "init"
    /\ steps = 0

SessionIds == {"hyperglycemia_spike", "not_a_real_id"}
SessionNumEvents == {3}

GenerateRandomEvent == GenerateRandomEventOn({"sim"}, RandomDraws)
GenerateAndAnalyzeEvent ==
    GenerateAndAnalyzeEventOn({"sim"}, RandomDraws, PipelineRemotes, BOOLEAN)
RunContinuousIteration ==
    RunContinuousIterationOn({"sim"}, RandomDraws, PipelineRemotes)
SessionRunScenarioCall ==
    ScenarioCall("sim", "list", "run_scenario", SessionIds, SessionNumEvents, BOOLEAN)
SessionRunScenarioStreamCall ==
    ScenarioCall("sim", "stream", "run_scenario_stream", SessionIds, SessionNumEvents, BOOLEAN)

NextSession ==
    \/ GenerateRandomEvent
    \/ GenerateAndAnalyzeEvent
    \/ RunContinuousIteration
    \/ SessionRunScenarioCall
    \/ RunScenarioStep
    \/ RunScenarioReturn
    \/ SessionRunScenarioStreamCall
    \/ RunScenarioStreamStep
    \/ RunScenarioStreamEnd

SpecSession == InitSession /\ [][NextSession]_vars

\* The pipeline at the classification thresholds: a simulator whose glucose
\* earlier events have brought to g, and glucose draws that land the reading
\* just above 11.0 and 14.0 and just below 3.5 and 4.0, on either side of
\* the rounding of the event's value to 2 decimals.
ThresholdGlucose == {45000, 100000, 130000}
ThresholdDraws ==
    RandomDraws
    \cup {[channel |-> "glucose", noise |-> n] : n \in {10000, 10040, -10040, -10080}}
ThresholdRemotes == {[GoodRemote EXCEPT !.api_key = "None", !.session = "None"]}

InitThreshold ==
    /\ \E g \in ThresholdGlucose :
          sim = [NewSimulator("child_1", 55000) EXCEPT
                    !.current_glucose = g, !.glucose_history = <<g>>]
    /\ peer = NewSimulator("child_2", 55000)
    /\ startHour = 16
    /\ clock = 0
    /\ files = NoFiles
    /\ run = Idle
    /\ args = NoArgs
    /\ last = NoResult
    /\ op = "init"
    /\ steps = 0

ThresholdGenerateAndAnalyzeEvent ==
    GenerateAndAnalyzeEventOn({"sim"}, ThresholdDraws, ThresholdRemotes, {FALSE})

NextThreshold == ThresholdGenerateAndAnalyzeEvent

SpecThreshold == InitThreshold /\ [][NextThreshold]_vars

\* Two simulators for two subjects, their calls interleaved in any order
\* (one draw per channel).
PairDraws ==
    {[channel |-> "glucose", noise |-> 15000],
     [channel |-> "heart_rate", noise |-> 200],
     [channel |-> "mood", noise |-> -1500],
     [channel |-> "medication"],
     [channel |-> "activity", noise |-> 200, deep |-> TRUE, wake |-> FALSE]}
PairRemotes == {[GoodRemote EXCEPT !.api_key = "None", !.session = "None"]}

InitPair == InitSession

PairGenerateRandomEvent == GenerateRandomEventOn(Instances, PairDraws)
PairGenerateAndAnalyzeEvent ==
    GenerateAndAnalyzeEventOn(Instances, PairDraws, PairRemotes, {TRUE})
PairRunContinuousIteration ==
    RunContinuousIterationOn(Instances, PairDraws, PairRemotes)
PairRunScenarioCall ==
    \E self \in Instances :
        ScenarioCall(self, "list", "run_scenario", {"hypoglycemia_episode"}, {3}, {TRUE})
PairRunScenarioStep == ScenarioStep(Instances, "list", "run_scenario")
PairRunScenarioReturn == ScenarioEnd(Instances, "list", "run_scenario")

NextPair ==
    \/ PairGenerateRandomEvent
    \/ PairGenerateAndAnalyzeEvent
    \/ PairRunContinuousIteration
    \/ PairRunScenarioCall
    \/ PairRunScenarioStep
    \/ PairRunScenarioReturn

SpecPair == InitPair /\ [][NextPair]_vars

\* run_continuous as the event loop runs it.  The coroutine can be
\* cancelled only where it is suspended: in the classifier's remote call
\* (which is awaited only with an API key and an open session) and in
\* asyncio.sleep.  CancelledError is a BaseException: neither the except
\* Exception of analyze_with_llm nor the except KeyboardInterrupt of
\* run_continuous catches it.
LoopRemotes ==
    {[GoodRemote EXCEPT !.api_key = "None", !.session = "None"],
     [GoodRemote EXCEPT !.status = "DANGER"],
     [GoodRemote EXCEPT !.http_status = 500]}
Suspends(remote) == remote.api_key # "None" /\ remote.session # "None"

Looping(pc) == [state |-> "loop", pc |-> pc]
Exited(by, at) == [state |-> "exited", by |-> by, at |-> at]

InitLoop ==
    /\ \E c \in {"child_1", "None"} : sim = NewSimulator(c, 55000)
    /\ peer = NewSimulator("child_2", 55000)
    /\ startHour = 16
    /\ clock = 0
    /\ files = NoFiles
    /\ run = Looping("generate")
    /\ args = [fn |-> "run_continuous"]
    /\ last = NoResult
    /\ op = "init"
    /\ steps = 0

\* the iteration has classified and appended (or an append has raised)
LoopIterationDone(r) ==
    /\ sim' = r.sim
    /\ files' = r.files
    /\ last' = r.result
    /\ run' = IF r.raises = "None" THEN Looping("sleeping")
              ELSE Exited(r.raises, "persist")

\* lines 1422-1424 and 876-882: the event is generated and counted, then
\* the classifier is entered; without a suspension the iteration runs on to
\* the sleep
LoopGenerate ==
    /\ run.state = "loop"
    /\ run.pc = "generate"
    /\ steps < MaxCalls
    /\ steps' = steps + 1
    /\ op' = "run_continuous"
    /\ \E gen \in PairDraws, env \in EnvDraws, remote \in LoopRemotes,
          io1 \in IoOutcomes, io2 \in IoOutcomes :
          \E g \in {generate_random_event(
                        update_environment(sim, Hour(startHour, clock),
                                           env.pollen, env.air),
                        Hour(startHour, clock), clock, gen)} :
             /\ args' = [fn |-> "run_continuous", remote |-> remote]
             /\ IF Suspends(remote)
                THEN /\ sim' = g.sim
                     /\ run' = [state |-> "loop", pc |-> "awaiting_remote",
                                pending |-> g.event, remote |-> remote]
                     /\ UNCHANGED <<files, last>>
                ELSE \E r \in {persist_and_wait(
                                    analyze_generated_event(g, files, remote,
                                                            TRUE, io1), io2)} :
                        LoopIterationDone(r)
    /\ UNCHANGED <<peer, startHour, clock>>

\* the remote call returns: lines 884-913, then 1532 and the sleep
LoopRemoteReturns ==
    /\ run.state = "loop"
    /\ run.pc = "awaiting_remote"
    /\ \E io1 \in IoOutcomes, io2 \in IoOutcomes :
          \E r \in {persist_and_wait(
                        analyze_generated_event([sim |-> sim, event |-> run.pending],
                                                files, run.remote, TRUE, io1),
                        io2)} :
             LoopIterationDone(r)
    /\ op' = "run_continuous"
    /\ UNCHANGED <<peer, startHour, clock, args, steps>>

\* asyncio.sleep returns: the next iteration
LoopWake ==
    /\ run.state = "loop"
    /\ run.pc = "sleeping"
    /\ run' = Looping("generate")
    /\ UNCHANGED <<sim, peer, startHour, clock, files, args, last, op, steps>>

\* the task is cancelled: CancelledError is raised at the await the
\* coroutine is suspended in and leaves run_continuous
LoopCancel ==
    /\ run.state = "loop"
    /\ run.pc \in {"awaiting_remote", "sleeping"}
    /\ run' = Exited("CancelledError", run.pc)
    /\ last' = ErrorResult("CancelledError")
    /\ op' = "run_continuous"
    /\ UNCHANGED <<sim, peer, startHour, clock, files, args, steps>>

NextLoop ==
    \/ LoopGenerate
    \/ LoopRemoteReturns
    \/ LoopWake
    \/ LoopCancel

SpecLoop == InitLoop /\ [][NextLoop]_vars

\* A simulator that has been generating for a while: its glucose history
\* holds g readings (5.01, 5.02, ... mmol/L) and its event history e
\* heart-rate events (90.1, 90.2, ... bpm), each counted in the statistics;
\* the current values are the last ones generated.
SeasonedSimulator(g, e) ==
    [NewSimulator("child_1", 55000) EXCEPT
        !.glucose_history = [i \in 1..g |-> 50000 + 100 * i],
        !.current_glucose = IF g = 0 THEN 55000 ELSE 50000 + 100 * g,
        !.event_history =
            [i \in 1..e |-> HealthEvent("heart_rate_elevated", 900 + i, "bpm",
                                        "low", "None", NoneNum, <<>>, NoneNum)],
        !.current_heart_rate = 900 + e,
        !.stats = [total_events |-> e, danger_events |-> 0, monitor_events |-> 0,
                   safe_events |-> e, anomalies_detected |-> 0]]

InitHistory ==
    /\ \E g \in {0, HistoryCap - 1, HistoryCap},
          e \in {0, EventHistoryCap - 1, EventHistoryCap} :
          sim = SeasonedSimulator(g, e)
    /\ peer = NewSimulator("child_2", 55000)
    /\ startHour = 16
    /\ clock = 0
    /\ files = NoFiles
    /\ run = Idle
    /\ args = NoArgs
    /\ last = NoResult
    /\ op = "init"
    /\ steps = 0

NextHistory == GenerateRandomEvent

SpecHistory == InitHistory /\ [][NextHistory]_vars

-----------------------------------------------------------------------------
(* The analytics functions applied to drawn inputs *)

MaxTrendLen == 6

\* history values (glucose, 1e-4 mmol/L) whose differences put the average
\* change in, and on the edges of, every band of _calculate_trend
TrendValues == {50000, 51500, 52000, 54000, 56000}
RECURSIVE SeqsUpTo(_, _)
SeqsUpTo(S, n) ==
    IF n = 0 THEN {<<>>}
    ELSE LET shorter == SeqsUpTo(S, n - 1)
         IN  shorter \cup {Append(q, x) : q \in {h \in shorter : Len(h) = n - 1}, x \in S}

PureInit(inputs) ==
    /\ sim = NewSimulator("child_1", 55000)
    /\ startHour = 11
    /\ clock = 0
    /\ peer = NewSimulator("child_2", 55000)
    /\ files = NoFiles
    /\ run = Idle
    /\ args \in inputs
    /\ last = NoResult
    /\ op = "init"
    /\ steps = 0

Apply(fn, result) ==
    /\ op = "init"
    /\ args.fn = fn
    /\ last' = result
    /\ op' = fn
    /\ UNCHANGED <<sim, peer, startHour, clock, files, run, args, steps>>

\* The scenario generators as functions of their inputs and draws

\* the number of events a run yields: the loops of the two generators
ScenarioRunLength(scenario_id, num_events) ==
    IF scenario_id = "hyperglycemia_spike" THEN 2 + Max(num_events - 2, 0)
    ELSE 2 + 2 * Max(num_events - 3, 0)

\* list(scenarios.run_scenario(scenario_id, child_profile, num_events)) when
\* the k-th next() makes the draws draws[k]
RECURSIVE PlayScenario(_, _, _, _, _, _)
PlayScenario(scenario_id, frame, baseline_glucose, num_events, draws, k) ==
    IF frame.pc = "done" \/ k > Len(draws) THEN <<>>
    ELSE LET y == scenario_generate_events(scenario_id, frame, baseline_glucose,
                                           num_events, draws[k])
         IN  <<y.event>> \o PlayScenario(scenario_id, y.frame, baseline_glucose,
                                         num_events, draws, k + 1)

\* the draws of a whole run: at each next() the low or the high end of
\* every uniform range the generators draw from
LowDraws ==
    [drop |-> 7500, critical |-> 32000, mood |-> 3000, recovery |-> 50000,
     rise |-> 100000, peak |-> 125000, decline |-> 75000]
HighDraws ==
    [drop |-> 7500, critical |-> 38000, mood |-> 3000, recovery |-> 50000,
     rise |-> 100000, peak |-> 125000, decline |-> 95000]
RunDraws(n) == [1..n -> {LowDraws, HighDraws}]

\* two runs of one scenario with the same id, baseline and num_events
InitPlay ==
    /\ sim = NewSimulator("child_1", 55000)
    /\ peer = NewSimulator("child_2", 55000)
    /\ startHour = 11
    /\ clock = 0
    /\ files = NoFiles
    /\ run = Idle
    /\ \E id \in ModelledScenarios, n \in {NoneNum, 3, 4} :
         \E d1, d2 \in RunDraws(ScenarioRunLength(id, DefaultNumEvents(id, n))) :
            args = [fn |-> "scenarios.run_scenario", scenario_id |-> id,
                    baseline_glucose |-> sim.baseline_glucose,
                    num_events |-> n, draws |-> <<d1, d2>>]
    /\ last = NoResult
    /\ op = "init"
    /\ steps = 0

PlayTwice ==
    Apply("scenarios.run_scenario",
          [kind |-> "two_runs",
           runs |-> [r \in 1..2 |->
                       PlayScenario(get_scenario(args.scenario_id), StartFrame,
                                    args.baseline_glucose,
                                    DefaultNumEvents(args.scenario_id,
                                                     args.num_events),
                                    args.draws[r], 1)]])

NextPlay == PlayTwice

SpecPlay == InitPlay /\ [][NextPlay]_vars

\* One run of a scenario, for event counts from 0 up to the sixth declining
\* event of the spike, and both profile baselines
EpisodeNumEvents == {0, 1, 3, 6, 7}

InitEpisode ==
    /\ sim = NewSimulator("child_1", 55000)
    /\ peer = NewSimulator("child_2", 55000)
    /\ startHour = 11
    /\ clock = 0
    /\ files = NoFiles
    /\ run = Idle
    /\ \E id \in ModelledScenarios, n \in EpisodeNumEvents, b \in ProfileGlucose :
         \E d \in RunDraws(ScenarioRunLength(id, n)) :
            args = [fn |-> "list(scenarios.run_scenario)", scenario_id |-> id,
                    baseline_glucose |-> b, num_events |-> n, draws |-> d]
    /\ last = NoResult
    /\ op = "init"
    /\ steps = 0

PlayOnce ==
    Apply("list(scenarios.run_scenario)",
          [kind |-> "events",
           events |-> PlayScenario(get_scenario(args.scenario_id), StartFrame,
                                   args.baseline_glucose, args.num_events,
                                   args.draws, 1)])

NextEpisode == PlayOnce

SpecEpisode == InitEpisode /\ [][NextEpisode]_vars

\* child_profiles.get_age_appropriate_baselines(age, condition): heart rate
\* in bpm, glucose in 1e-4 mmol/L, SpO2 in 1e-4 percent
MutBaselinesBandsBelow(age, condition) ==
    [baseline_heart_rate |-> IF age < 5 THEN 100
                             ELSE IF age < 8 THEN 90
                             ELSE IF age < 12 THEN 85
                             ELSE 80,
     baseline_glucose    |-> IF condition \in {"diabetes", "both"} THEN 55000
                             ELSE 50000,
     baseline_spo2       |-> 980000]
get_age_appropriate_baselines(age, condition) ==
    [baseline_heart_rate |-> IF age <= 5 THEN 100
                             ELSE IF age <= 8 THEN 90
                             ELSE IF age <= 12 THEN 85
                             ELSE 80,
     baseline_glucose    |-> IF condition \in {"diabetes", "both"} THEN 55000
                             ELSE 50000,
     baseline_spo2       |-> 980000]

\* the profile inputs: ages around every band edge (a negative one
\* included, nothing in the function rejects it) and the four condition
\* tags with two strings that are not tags
ProfileAges == -1 .. 14
ProfileConditions == {"diabetes", "asthma", "both", "none", "", "Diabetes"}

InitBaselines ==
    PureInit({[fn |-> "get_age_appropriate_baselines", age |-> a, condition |-> c] :
                 a \in ProfileAges, c \in ProfileConditions})
GetAgeAppropriateBaselines ==
    Apply("get_age_appropriate_baselines",
          [kind |-> "baselines",
           baselines |-> get_age_appropriate_baselines(args.age, args.condition)])
NextBaselines == GetAgeAppropriateBaselines
SpecBaselines == InitBaselines /\ [][NextBaselines]_vars

InitTrend ==
    PureInit({[fn |-> "calculate_trend", history |-> h, current |-> c] :
                 h \in SeqsUpTo(TrendValues, MaxTrendLen), c \in {50000, 180000}})
CalculateTrend ==
    Apply("calculate_trend",
          [kind |-> "trend",
           trend |-> calculate_trend(args.history, args.current, 10000)])
NextTrend == CalculateTrend
SpecTrend == InitTrend /\ [][NextTrend]_vars

\* value, baseline and range in tenths (5.5 = 55)
InitAnomaly ==
    PureInit({[fn |-> "calculate_anomaly_score", value |-> v, baseline |-> b,
               lower |-> lo, upper |-> hi] :
                 v \in {5 * k : k \in 4..18}, b \in {30, 40, 55, 70, 80},
                 lo \in {30, 40}, hi \in {70, 80}})
    /\ args.lower <= args.baseline
    /\ args.baseline <= args.upper
CalculateAnomalyScore ==
    Apply("calculate_anomaly_score",
          calculate_anomaly_score(args.value, args.baseline, args.lower, args.upper))
NextAnomaly == CalculateAnomalyScore
SpecAnomaly == InitAnomaly /\ [][NextAnomaly]_vars

\* the current values _calculate_health_score reads
InitHealth ==
    /\ \E g \in {25000, 32000, 37000, 55000, 80000, 100000, 120000},
          h \in {600, 650, 900, 1150, 1300},
          m \in {0, 5000, 10000}, a \in {0, 500, 1000}, st \in {0, 300, 1000} :
          sim = [NewSimulator("child_1", 55000) EXCEPT
                    !.current_glucose = g, !.current_heart_rate = h,
                    !.current_mood = m, !.current_activity = a,
                    !.current_stress = st]
    /\ startHour = 11
    /\ clock = 0
    /\ peer = NewSimulator("child_2", 55000)
    /\ files = NoFiles
    /\ run = Idle
    /\ args = [fn |-> "calculate_health_score"]
    /\ last = NoResult
    /\ op = "init"
    /\ steps = 0
CalculateHealthScore ==
    Apply("calculate_health_score",
          [kind |-> "score", score |-> calculate_health_score(sim)])
NextHealth == CalculateHealthScore
SpecHealth == InitHealth /\ [][NextHealth]_vars

-----------------------------------------------------------------------------
(* Claims *)

InRange(x, lo, hi) == lo <= x /\ x <= hi

\* C1: every value a channel generator has just produced lies in its clamp
\* range: glucose in [2.5, 18.0], heart rate in [60, 140], SpO2 in [92, 100],
\* and mood, activity and asthma risk in [0, 1] -- both the state field the
\* generator wrote and the (rounded) value of the event it returned.
C1_GeneratedValuesInRange ==
    /\ op = "generate_glucose_event" =>
          /\ InRange(sim.current_glucose, 25000, 180000)
          /\ InRange(last.event.value, 25000, 180000)
    /\ op = "generate_heart_rate_event" =>
          /\ InRange(sim.current_heart_rate, 600, 1400)
          /\ InRange(last.event.value, 600, 1400)
    /\ op = "generate_oxygen_saturation_event" =>
          /\ InRange(sim.current_spo2, 920000, 1000000)
          /\ InRange(last.event.value, 920000, 1000000)
    /\ op = "generate_mood_event" =>
          /\ InRange(sim.current_mood, 0, 10000)
          /\ InRange(last.event.value, 0, 10000)
    /\ op = "generate_asthma_risk_event" =>
          /\ InRange(sim.asthma_risk_level, 0, 10000)
          /\ InRange(last.event.value, 0, 10000)
    /\ op = "generate_activity_event" =>
          /\ InRange(sim.current_activity, 0, 1000)
          /\ InRange(last.event.value, 0, 1000)

\* C1 witness: a glucose event was generated for a subject whose baseline
\* (20.0) lies above the clamp range, so the clamp has acted.
C1_Witness ==
    /\ op = "generate_glucose_event"
    /\ sim.baseline_glucose = 200000
    /\ sim.current_glucose = 180000

\* C2: every operation that writes the current glucose leaves it in
\* [2.5, 18.0], for any baseline glucose supplied by the profile:
\* generate_glucose_event on every call, generate_activity_event whenever its
\* high-activity nudge changes the glucose.
C2_GlucoseWritesInRange ==
    [][ (\/ (op' = "generate_glucose_event" /\ steps' = steps + 1)
         \/ (/\ op' = "generate_activity_event"
             /\ steps' = steps + 1
             /\ sim'.current_glucose # sim.current_glucose))
        => InRange(sim'.current_glucose, 25000, 180000) ]_vars

\* C3: requesting an unknown scenario id fails with an error, substitutes no
\* other scenario, and leaves the statistics counters, the physiological
\* state, the history log and the (idle) run exactly as they were.
C3_UnknownScenarioFails ==
    [][ (/\ op' \in {"run_scenario", "run_scenario_stream"}
         /\ steps' = steps + 1
         /\ args'.scenario_id \notin SCENARIOS)
        => (/\ last' = ErrorResult("ValueError")
            /\ sim' = sim
            /\ peer' = peer
            /\ files' = files
            /\ run' = Idle) ]_vars

\* C3 witness: an unknown id was requested after a scenario had already run,
\* so there are statistics and a log to preserve.
C3_Witness ==
    /\ last = ErrorResult("ValueError")
    /\ args.scenario_id = "not_a_real_id"
    /\ sim.stats.total_events > 0
    /\ Len(files[get_history_file(sim.child_id)]) > 0

Phase(e) ==
    IF "phase" \in DOMAIN e.metadata THEN e.metadata.phase ELSE e.metadata.context

\* the phase order of a hypoglycemia run: position k of the events yielded
\* so far, for a run of num_events n with m = max(n - 3, 0) critical rounds
HypoOrderOK(events, n) ==
    LET m == Max(n - 3, 0)
    IN  /\ Len(events) <= 2 * m + 2
        /\ \A k \in 1..Len(events) :
              LET e == events[k]
              IN  IF k = 1 THEN Phase(e) = "initial_drop"
                  ELSE IF k = 2 * m + 2 THEN
                      /\ Phase(e) = "recovery"
                      /\ e.safety_status = "SAFE"
                      /\ e.trend = "rising"
                  ELSE IF k % 2 = 0 THEN
                      /\ Phase(e) = "critical"
                      /\ e.event_type = "glucose_drop"
                      /\ InRange(e.value, 32000, 38000)
                      /\ e.safety_status = "DANGER"
                  ELSE
                      /\ Phase(e) = "hypoglycemia_effect"
                      /\ e.event_type = "mood_indicator"
                      /\ events[k - 1].metadata = [phase |-> "critical",
                                                   requires_intervention |-> TRUE]
        /\ \A j, k \in 1..Len(events) :
              (j < k /\ Phase(events[j]) = "recovery")
                  => events[k].safety_status # "DANGER"

\* C4: the hypoglycemia_episode scenario yields its events in fixed phase
\* order: one initial-drop event, then critical-phase glucose events with
\* value in [3.2, 3.8] and safety_status DANGER, each immediately followed by
\* a mood-drop event, and last exactly one recovery event with safety_status
\* SAFE and trend rising; no DANGER event follows the recovery event.  It
\* holds of every prefix yielded so far and of the completed run, whose
\* last event is the recovery event.
C4_HypoglycemiaPhaseOrder ==
    /\ (run.state = "running" /\ run.scenario_id = "hypoglycemia_episode")
          => HypoOrderOK(run.events, run.num_events)
    /\ (last.kind \in {"events", "end"} /\ last.scenario_id = "hypoglycemia_episode")
          => /\ HypoOrderOK(last.events, last.num_events)
             /\ Len(last.events) = 2 * Max(last.num_events - 3, 0) + 2
             /\ Phase(last.events[Len(last.events)]) = "recovery"

\* C4 witness: the stated case (baseline 5.5, num_events 5) has completed,
\* with two critical rounds at both ends of [3.2, 3.8].
C4_Witness ==
    /\ last.kind = "events"
    /\ sim.baseline_glucose = 55000
    /\ args.num_events = 5
    /\ Len(last.events) = 6
    /\ last.events[2].value = 32000
    /\ last.events[4].value = 38000
    /\ last.events[3].event_type = "mood_indicator"

\* C5: classification never raises and always returns a status in {SAFE,
\* MONITOR, DANGER} with a reasoning string, for every outcome of the remote
\* call; when there is no API key, no open session, a connection error, a
\* timeout, a non-200 response, a body that is not JSON, JSON without a
\* status field or a status outside the three values, the result equals what
\* the rule-based fallback returns for the same event.
C5_ClassificationNeverRaises ==
    op = "analyze_with_llm" =>
        /\ last.kind = "classified"
        /\ last.status \in {"SAFE", "MONITOR", "DANGER"}
        /\ last.reasoning # "None"
        /\ RemoteFailed(args.remote) =>
              last = Classified(rule_based_analysis(args.event))
        /\ ~RemoteFailed(args.remote) => last.status = args.remote.status

\* C5 witness: with an API key but no open session, a critical asthma event
\* was classified DANGER by the fallback.
C5_Witness ==
    /\ op = "analyze_with_llm"
    /\ args.remote.api_key = "key"
    /\ args.remote.session = "None"
    /\ args.event.event_type = "asthma_risk"
    /\ args.event.urgency = "critical"
    /\ last.status = "DANGER"

\* C6: with glucose 5.5, heart rate 90, mood 1.0, activity 1.0 and stress 0
\* the health score is 100.0.
C6_IdealInputsScore100 ==
    (/\ op = "calculate_health_score"
     /\ sim.current_glucose = 55000
     /\ sim.current_heart_rate = 900
     /\ sim.current_mood = 10000
     /\ sim.current_activity = 1000
     /\ sim.current_stress = 0)
        => last.score = 1000

RatEq(a, b) == a.raised = "" /\ b.raised = "" /\ a.n * b.d = b.n * a.d

\* C7: the anomaly score is continuous at the range boundaries: the score
\* of the within-range branch at value = lower (value = upper) equals the
\* value the below-range (above-range) branch approaches at that boundary
\* (stated for a baseline strictly inside the range, where both branches
\* are defined at the boundary).
C7_AnomalyContinuousAtBounds ==
    (/\ op = "calculate_anomaly_score"
     /\ args.lower < args.baseline
     /\ args.baseline < args.upper)
        => /\ args.value = args.lower =>
                 RatEq(last, AnomalyBelow(args.lower, args.baseline,
                                          args.lower, args.upper))
           /\ args.value = args.upper =>
                 RatEq(last, AnomalyAbove(args.upper, args.baseline,
                                          args.lower, args.upper))

\* C8: for every value and every baseline and range with lower < upper and
\* lower <= baseline <= upper, the anomaly score is a number in [0, 1] and
\* the call does not raise.
C8_AnomalyInUnitRangeNoRaise ==
    op = "calculate_anomaly_score" =>
        /\ last.raised = ""
        /\ 0 <= last.n
        /\ last.n <= last.d

\* the average successive delta over the last (up to) 5 points, as the
\* difference of the window's ends over the number of steps: avg = num / den
TrendWindow(history) == Min(Len(history), 5)
TrendNum(history) == history[Len(history)] - history[Len(history) - TrendWindow(history) + 1]
TrendDen(history) == (TrendWindow(history) - 1) * 10000

\* C9 as stated: with at least 3 points the trend is stable when
\* |avg| < 0.1, rising when avg > 0.3, falling when avg < -0.3, and volatile
\* for every other average.
C9_VolatileForEveryOtherAverage ==
    (op = "calculate_trend" /\ Len(args.history) >= 3) =>
        LET num == TrendNum(args.history)
            den == TrendDen(args.history)
        IN  last.trend =
               IF 10 * Abs(num) < den THEN "stable"
               ELSE IF 10 * num > 3 * den THEN "rising"
               ELSE IF 10 * num < -3 * den THEN "falling"
               ELSE "volatile"

\* C9 amended: with at least 3 points the trend is stable when |avg| < 0.1,
\* rising when avg > 0.3, falling when avg < -0.3, volatile when
\* 0.2 < |avg| <= 0.3, and stable when 0.1 <= |avg| <= 0.2.
C9_VolatileOnlyAboveTwoTenths ==
    (op = "calculate_trend" /\ Len(args.history) >= 3) =>
        LET num == TrendNum(args.history)
            den == TrendDen(args.history)
        IN  last.trend =
               IF 10 * Abs(num) < den THEN "stable"
               ELSE IF 10 * num > 3 * den THEN "rising"
               ELSE IF 10 * num < -3 * den THEN "falling"
               ELSE IF 10 * Abs(num) > 2 * den THEN "volatile"
               ELSE "stable"

\* C9 witness: six points whose last five average 0.15 per step (the first
\* point, outside the window, would make it 0.12): the trend is stable.
C9_Witness ==
    /\ op = "calculate_trend"
    /\ args.history = <<50000, 50000, 50000, 50000, 52000, 56000>>
    /\ last.trend = "stable"

\* C10: the trend is stable whenever the history has fewer than 3 points,
\* whatever the current value and whatever the points are.
C10_StableBelowThreePoints ==
    (op = "calculate_trend" /\ Len(args.history) < 3) => last.trend = "stable"

\* C10 witness: two points 0.6 apart (an average change that three points
\* would call rising) and a current value of 18.0: the trend is stable.
C10_Witness ==
    /\ op = "calculate_trend"
    /\ args.history = <<50000, 56000>>
    /\ args.current = 180000
    /\ last.trend = "stable"

\* C11: the glucose and heart-rate histories never hold more than 20 values
\* and the event history never more than 50 events; generate_random_event
\* appends its event to the event history, and a glucose event its reading
\* to the glucose history, and an append to a full history drops exactly
\* the oldest entry and keeps the others in arrival order.
C11_HistoriesBounded ==
    /\ [](/\ Len(sim.glucose_history) <= 20
          /\ Len(sim.heart_rate_history) <= 20
          /\ Len(sim.event_history) <= 50)
    /\ [][ (op' = "generate_random_event" /\ steps' = steps + 1) =>
             /\ sim'.event_history =
                   IF Len(sim.event_history) = 50
                   THEN Tail(sim.event_history) \o <<last'.event>>
                   ELSE sim.event_history \o <<last'.event>>
             /\ sim'.glucose_history =
                   IF args'.channel # "glucose" THEN sim.glucose_history
                   ELSE IF Len(sim.glucose_history) = 20
                   THEN Tail(sim.glucose_history) \o <<sim'.current_glucose>>
                   ELSE sim.glucose_history \o <<sim'.current_glucose>> ]_vars

\* C11 witness: a glucose event was generated with both the glucose history
\* and the event history full; the oldest reading (5.01) and the oldest
\* event (90.1 bpm) are gone and the second-oldest are now first.
C11_Witness ==
    /\ op = "generate_random_event"
    /\ args.channel = "glucose"
    /\ sim.stats.total_events = EventHistoryCap + 1
    /\ Len(sim.glucose_history) = 20
    /\ sim.glucose_history[1] = 50200
    /\ sim.glucose_history[20] = sim.current_glucose
    /\ Len(sim.event_history) = 50
    /\ sim.event_history[1].value = 902
    /\ sim.event_history[50] = last.event

\* what of an instance another instance's calls must leave alone: its current
\* values, rolling histories and statistics counters (all fields of the
\* instance), and its subject's history log
OwnState(self) == <<Self(self), files[get_history_file(Self(self).child_id)]>>

\* C12: for two simulators constructed for different subject ids, a
\* generator call, generate_and_analyze_event, run_continuous iteration or
\* scenario step on one leaves the other's current values, rolling
\* histories, statistics counters and history log unchanged, whatever the
\* order in which their calls are interleaved.
C12_InstancesIndependent ==
    [][ /\ sim.child_id # peer.child_id
        /\ (args'.self = "sim" =>
               <<peer', files'[get_history_file(peer.child_id)]>> = OwnState("peer"))
        /\ (args'.self = "peer" =>
               <<sim', files'[get_history_file(sim.child_id)]>> = OwnState("sim")) ]_vars

\* C12 witness: while a scenario run of the first simulator is under way
\* (events yielded and logged), the second simulator generated, classified
\* and logged an event of its own.
C12_Witness ==
    /\ run.state = "running"
    /\ run.self = "sim"
    /\ sim.child_id = "child_1"
    /\ Len(run.events) >= 1
    /\ Len(files[get_history_file(sim.child_id)]) >= 1
    /\ op = "generate_and_analyze_event"
    /\ args.self = "peer"
    /\ peer.stats.total_events = 1
    /\ Len(files[get_history_file(peer.child_id)]) = 1

\* a simulator with a child id (None and "" are falsy)
HasChildId(s) == s.child_id \notin {"None", ""}

\* C13: when appending an event to the history log fails -- in
\* generate_and_analyze_event (which appends when save_to_history is set and
\* the simulator has a child id), in an iteration of run_continuous (that
\* append, then its own), or in a step of run_scenario / run_scenario_stream
\* with save_to_history set -- the call ends with that error: it never
\* returns or yields the event as if it had been persisted.
C13_PersistenceFailurePropagates ==
    [][ /\ (/\ op' = "generate_and_analyze_event"
            /\ steps' = steps + 1
            /\ args'.save_to_history
            /\ HasChildId(sim)
            /\ args'.io # "ok")
           => (last' = ErrorResult(args'.io) /\ files' = files)
        /\ (/\ op' = "run_continuous"
            /\ steps' = steps + 1
            /\ ((HasChildId(sim) /\ args'.io1 # "ok") \/ args'.io2 # "ok"))
           => last'.kind = "error"
        /\ (/\ op' \in {"run_scenario", "run_scenario_stream"}
            /\ run.state = "running"
            /\ args'.io \notin {"ok", "none"})
           => (/\ last' = ErrorResult(args'.io)
               /\ run' = Idle
               /\ files' = files) ]_vars

\* C13 witness: a streamed scenario had yielded and logged an event when
\* the append of the next one failed; the stream ended with the error.
C13_Witness ==
    /\ op = "run_scenario_stream"
    /\ args.io = "OSError"
    /\ last = ErrorResult("OSError")
    /\ run = Idle
    /\ Len(files[get_history_file(sim.child_id)]) = 1
    /\ sim.stats.total_events = 2

\* the events the scenario generator of the run in progress can yield next,
\* as authored, tagged with the subject's id
AuthoredNext ==
    {TagChild(scenario_generate_events(run.scenario_id, run.frame,
                                       sim.baseline_glucose, run.num_events,
                                       d).event,
              sim.child_id) : d \in ScenarioDraws}

\* C14: a step of run_scenario or run_scenario_stream leaves every current
\* value, the sleep state, the clock and every rolling history (the
\* in-memory event history included) unchanged and changes only the
\* statistics counters and the history log; the event it yields and logs is
\* the authored one, with its authored safety_status and reasoning -- the
\* rising-phase event of hyperglycemia_spike stays MONITOR although the
\* classifier's rules would call it SAFE.
C14_ScenarioRunFrame ==
    [][ op' \in {"run_scenario", "run_scenario_stream"} =>
          /\ sim' = [sim EXCEPT !.stats = sim'.stats]
          /\ sim'.stats.anomalies_detected = sim.stats.anomalies_detected
          /\ peer' = peer
          /\ clock' = clock
          /\ (run.state = "running" /\ run.frame.pc # "done") =>
                \E e \in AuthoredNext :
                   /\ e.safety_status \in SafetyStatus
                   /\ e.metadata.phase = "rising" =>
                         /\ e.safety_status = "MONITOR"
                         /\ rule_based_analysis(e)[1] = "SAFE"
                   /\ e.llm_reasoning # rule_based_analysis(e)[2]
                   /\ sim'.stats.total_events = sim.stats.total_events + 1
                   /\ IF args'.io = "OSError" THEN files' = files
                      ELSE /\ run'.events = Append(run.events, e)
                           /\ files' = IF run.save_to_history
                                       THEN [files EXCEPT
                                               ![get_history_file(sim.child_id)] =
                                                   Append(@, e)]
                                       ELSE files
          /\ ~(run.state = "running" /\ run.frame.pc # "done") =>
                (files' = files /\ sim' = sim) ]_vars

\* C14 witness: a scenario run completed on a simulator that had generated
\* a glucose event before: the three scenario events are counted and logged,
\* the glucose, its history and the event history are as the generator left
\* them.
C14_Witness ==
    /\ op = "run_scenario"
    /\ last.kind = "events"
    /\ Len(last.events) = 3
    /\ last.events[1].safety_status = "MONITOR"
    /\ sim.stats.total_events = 4
    /\ Len(sim.event_history) = 1
    /\ sim.event_history[1].event_type \in {"glucose_normal", "glucose_spike", "glucose_drop"}
    /\ sim.glucose_history = <<sim.current_glucose>>
    /\ sim.current_glucose # sim.baseline_glucose
    /\ Len(files[get_history_file(sim.child_id)]) = 3

\* the (event_type, urgency, safety_status) labels of a run, in order
Labels(events) ==
    [i \in 1..Len(events) |->
        <<events[i].event_type, events[i].urgency, events[i].safety_status>>]

\* C15: for a fixed scenario id, baseline and num_events, two runs yield the
\* same ordered sequence of (event_type, urgency, safety_status) labels,
\* whatever their random draws.
C15_ScenarioLabelsDeterministic ==
    op = "scenarios.run_scenario" =>
        Labels(last.runs[1]) = Labels(last.runs[2])

\* the six threshold cases, as conditions on the clamped glucose
GlucoseCases(g) ==
    <<g < 35000,
      35000 <= g /\ g < 40000,
      g > 140000,
      110000 < g /\ g <= 140000,
      90000 < g /\ g <= 110000,
      40000 <= g /\ g <= 90000>>
GlucoseLabels ==
    << <<"glucose_drop", "critical">>, <<"glucose_drop", "high">>,
       <<"glucose_spike", "critical">>, <<"glucose_spike", "high">>,
       <<"glucose_spike", "medium">>, <<"glucose_normal", "low">> >>

\* C16: generate_glucose_event takes the event's type and urgency from the
\* clamped current glucose: exactly one of the six cases applies to it
\* (< 3.5 drop/critical, else < 4.0 drop/high, else > 14.0 spike/critical,
\* else > 11.0 spike/high, else > 9.0 spike/medium, else normal/low), and the
\* event carries that case's labels.
C16_GlucoseThresholds ==
    op = "generate_glucose_event" =>
        LET g == sim.current_glucose
        IN  /\ InRange(g, 25000, 180000)
            /\ Cardinality({k \in 1..6 : GlucoseCases(g)[k]}) = 1
            /\ \A k \in 1..6 :
                  GlucoseCases(g)[k] =>
                     <<last.event.event_type, last.event.urgency>> = GlucoseLabels[k]

\* C16 witness: a glucose event was generated with the glucose between 9.0
\* and 11.0 and is a medium spike.
C16_Witness ==
    /\ op = "generate_glucose_event"
    /\ sim.current_glucose > 90000
    /\ sim.current_glucose <= 110000
    /\ last.event.event_type = "glucose_spike"
    /\ last.event.urgency = "medium"

\* C17: get_age_appropriate_baselines returns, for every age and condition
\* and without touching any state, heart rate 100 for age <= 5, 90 for 6-8,
\* 85 for 9-12 and 80 above -- never higher for an older age than for a
\* younger one --, glucose 5.5 for diabetes or both and 5.0 otherwise, and
\* SpO2 98.0.
C17_BaselinesByAgeAndCondition ==
    op = "get_age_appropriate_baselines" =>
        LET b == last.baselines
        IN  /\ last.kind = "baselines"
            /\ b.baseline_heart_rate =
                  (IF args.age <= 5 THEN 100
                   ELSE IF args.age \in 6..8 THEN 90
                   ELSE IF args.age \in 9..12 THEN 85
                   ELSE 80)
            /\ \A older \in ProfileAges :
                  older >= args.age =>
                     get_age_appropriate_baselines(older, args.condition)
                        .baseline_heart_rate <= b.baseline_heart_rate
            /\ b.baseline_glucose =
                  (IF args.condition = "diabetes" \/ args.condition = "both"
                   THEN 55000 ELSE 50000)
            /\ b.baseline_spo2 = 980000
            /\ sim = NewSimulator("child_1", 55000)
            /\ files = NoFiles

\* C17 witness: the baselines of an 8-year-old with asthma were derived:
\* 90 bpm (the upper edge of the 6-8 band), 5.0 mmol/L, 98.0 %.
C17_Witness ==
    /\ op = "get_age_appropriate_baselines"
    /\ args.age = 8
    /\ args.condition = "asthma"
    /\ last.baselines = [baseline_heart_rate |-> 90, baseline_glucose |-> 50000,
                         baseline_spo2 |-> 980000]

\* C19: after any sequence of generate_random_event,
\* generate_and_analyze_event, run_continuous iterations and scenario steps
\* on one simulator, danger_events + monitor_events + safe_events equals
\* total_events.
C19_StatusCountersSumToTotal ==
    sim.stats.danger_events + sim.stats.monitor_events + sim.stats.safe_events
        = sim.stats.total_events

\* C20: every completed iteration of run_continuous (event generated,
\* classified, persisted, now waiting) has grown the subject's history log by
\* exactly one record, whether or not the simulator has a child id.
C20_OneRecordPerIteration ==
    [][ (/\ op' = "run_continuous"
         /\ steps' = steps + 1
         /\ last'.kind = "waiting")
        => Len(files'[get_history_file(sim.child_id)])
              = Len(files[get_history_file(sim.child_id)]) + 1 ]_vars

\* C22: generate_heart_rate_event classifies the clamped heart rate: above
\* 120 an elevated event of medium urgency, below 70 a low event of medium
\* urgency, and in [70, 120] an event of low urgency whose type is not the
\* elevated type.
C22_HeartRateClasses ==
    op = "generate_heart_rate_event" =>
        LET h == sim.current_heart_rate
            e == last.event
        IN  /\ h > 1200 =>
                  e.event_type = "heart_rate_elevated" /\ e.urgency = "medium"
            /\ h < 700 =>
                  e.event_type = "heart_rate_low" /\ e.urgency = "medium"
            /\ InRange(h, 700, 1200) =>
                  e.event_type # "heart_rate_elevated" /\ e.urgency = "low"

\* the urgency levels in ascending order
UrgencyRank(u) ==
    CASE u = "low" -> 1 [] u = "medium" -> 2 [] u = "high" -> 3 [] OTHER -> 4

\* the urgency the elapsed time alone gives: > 5h high, > 4h medium, else low
TimeBasedUrgency(hours_since) ==
    IF hours_since > 5 THEN "high" ELSE IF hours_since > 4 THEN "medium" ELSE "low"

\* C23: generate_medication_event escalates the time-based urgency whenever
\* the current glucose is above 9.0: the event's urgency is then strictly
\* above the time-based one, and is critical when the time-based one is high.
C23_MedicationEscalatesAboveNine ==
    (op = "generate_medication_event" /\ sim.current_glucose > 90000) =>
        LET base == TimeBasedUrgency(last.event.value)
        IN  /\ UrgencyRank(last.event.urgency) > UrgencyRank(base)
            /\ base = "high" => last.event.urgency = "critical"

\* C24: a channel generator with a rolling history appends its new reading
\* to it before returning: after generate_glucose_event the newest entry of
\* glucose_history is the current glucose, and after
\* generate_heart_rate_event the newest entry of heart_rate_history is the
\* current heart rate.
C24_ReadingAppendedToHistory ==
    /\ op = "generate_glucose_event" =>
          /\ Len(sim.glucose_history) > 0
          /\ sim.glucose_history[Len(sim.glucose_history)] = sim.current_glucose
    /\ op = "generate_heart_rate_event" =>
          /\ Len(sim.heart_rate_history) > 0
          /\ sim.heart_rate_history[Len(sim.heart_rate_history)]
                = sim.current_heart_rate

\* the glucose change with the time-of-day factor applied to the noise only
NoiseScaledChange(noise, activity_effect, medication_effect, meal_effect, time_factor) ==
    (time_factor * noise) \div 10 + activity_effect + medication_effect + meal_effect

\* C25: the change one generate_glucose_event step applies to the glucose
\* (where the clamp does not cut it) is timeOfDayFactor * noise + activity
\* effect + medication effect + meal effect, for one of the noise draws: the
\* factor scales the noise alone.
C25_FactorScalesNoiseOnly ==
    [][ (/\ op' = "generate_glucose_event"
         /\ steps' = steps + 1
         /\ sim'.current_glucose > GlucoseMin
         /\ sim'.current_glucose < GlucoseMax)
        => \E noise \in GlucoseNoise :
              sim'.current_glucose - sim.current_glucose =
                 NoiseScaledChange(noise,
                                   -(sim.current_activity * 5),
                                   IF 1 + clock < 2 THEN -3000 ELSE 0,
                                   MealEffect(2 + clock),
                                   get_time_of_day_factor(Hour(startHour, clock))) ]_vars

\* C30: generate_activity_event changes the glucose only through the
\* high-activity nudge: when the resulting activity is above 0.8 the glucose
\* is lowered by 0.3, whatever it was, and when the resulting activity is
\* 0.8 or below the glucose is left as it was.
C30_HighActivityNudge ==
    [][ (op' = "generate_activity_event" /\ steps' = steps + 1)
        => /\ sim'.current_activity > 800 =>
                 sim'.current_glucose = sim.current_glucose - 3000
           /\ sim'.current_activity <= 800 =>
                 sim'.current_glucose = sim.current_glucose ]_vars

\* C30 (as the code has it): generate_activity_event lowers the glucose by
\* 0.3 exactly when the resulting activity is above 0.8 and the glucose is
\* above 5.0; in every other case, a glucose of 5.0 or less under high
\* activity included, it leaves the glucose as it was.
C30_NudgeOnlyAboveFive ==
    [][ (op' = "generate_activity_event" /\ steps' = steps + 1)
        => IF sim'.current_activity > 800 /\ sim.current_glucose > 50000
           THEN sim'.current_glucose = sim.current_glucose - 3000
           ELSE sim'.current_glucose = sim.current_glucose ]_vars

\* C30 witness: an activity event left the activity above 0.8 while the
\* glucose was at most 5.0, and the glucose is what the preceding glucose
\* event had set.
C30_Witness ==
    /\ op = "generate_activity_event"
    /\ sim.current_activity > 800
    /\ sim.current_glucose <= 50000
    /\ Len(sim.glucose_history) > 0
    /\ sim.glucose_history[Len(sim.glucose_history)] = sim.current_glucose

\* the event types the fallback has a channel-specific rule for
RuledTypes ==
    {"glucose_drop", "glucose_spike", "heart_rate_elevated", "mood_indicator"}

\* C26 (as stated): in the rule-based fallback an event of a type without a
\* channel-specific rule is classified SAFE with the reasoning "Event within
\* normal parameters", whatever its urgency.
C26_UnruledTypeIsSafe ==
    (/\ op = "analyze_with_llm"
     /\ RemoteFailed(args.remote)
     /\ args.event.event_type \notin RuledTypes)
    => last = Classified(<<"SAFE", "Event within normal parameters">>)

\* C26 (as the code has it): in the rule-based fallback an event of a type
\* without a channel-specific rule is classified by its urgency: DANGER when
\* critical, MONITOR when high, and SAFE with the reasoning "Event within
\* normal parameters" when medium or low.
C26_UnruledTypeByUrgency ==
    (/\ op = "analyze_with_llm"
     /\ RemoteFailed(args.remote)
     /\ args.event.event_type \notin RuledTypes)
    => /\ last.kind = "classified"
       /\ args.event.urgency = "critical" => last.status = "DANGER"
       /\ args.event.urgency = "high" => last.status = "MONITOR"
       /\ args.event.urgency \in {"medium", "low"} =>
             last = Classified(<<"SAFE", "Event within normal parameters">>)

\* C26 witness: the fallback classified a medication reminder of high
\* urgency, after the remote call answered 500, as MONITOR.
C26_Witness ==
    /\ op = "analyze_with_llm"
    /\ args.remote.http_status = 500
    /\ args.event.event_type = "medication_due"
    /\ args.event.urgency = "high"
    /\ last.status = "MONITOR"

\* C27: for every event a channel generator produces, the rule-based
\* fallback does not answer SAFE when the generator gave the event urgency
\* high or critical -- the generator thresholds the unrounded reading, the
\* fallback the rounded value of the event.
C27_UrgentNeverSafe ==
    (/\ op = "generate_and_analyze_event"
     /\ last.kind = "event_dict"
     /\ args.remote.api_key = "None"
     /\ last.event.urgency \in {"high", "critical"})
    => last.event.safety_status # "SAFE"

\* C28: run_scenario(scenario_id, profile, num_events = n) returns exactly n
\* events for a scenario of the registry and n >= 1, and without num_events
\* returns 5 events for an episode scenario and 12 for a full-day one.
C28_ScenarioYieldsRequestedCount ==
    (/\ op = "run_scenario"
     /\ last.kind = "events"
     /\ args.num_events = NoneNum \/ args.num_events >= 1)
    => Len(last.events) =
          IF args.num_events # NoneNum THEN args.num_events
          ELSE IF args.scenario_id \in EpisodeScenarios THEN 5 ELSE 12

\* C29: every event a scenario yields, for every num_events >= 0 and every
\* baseline, carries an anomaly score in [0, 1], a health score in [0, 100]
\* and a safety status among SAFE, MONITOR and DANGER.
C29_ScenarioScoresInRange ==
    op = "list(scenarios.run_scenario)" =>
        \A k \in 1..Len(last.events) :
            /\ InRange(last.events[k].anomaly_score, 0, 1000)
            /\ InRange(last.events[k].health_score, 0, 1000)
            /\ last.events[k].safety_status \in SafetyStatus

\* the k-th event the simulator counted has been classified and is in the
\* subject's history log
ClassifiedAndPersisted(k) ==
    /\ k <= Len(sim.event_history)
    /\ sim.event_history[k].safety_status \in SafetyStatus
    /\ \E j \in 1..Len(files[get_history_file(sim.child_id)]) :
          LET record == files[get_history_file(sim.child_id)][j]
          IN  /\ record.statistics.total_events = k
              /\ record.event_type = sim.event_history[k].event_type
              /\ record.safety_status = sim.event_history[k].safety_status

\* C21: when run_continuous has exited on cancellation, every event that
\* was generated and counted in total_events has also been classified and
\* persisted -- also when the cancellation arrived while the classifier was
\* suspended on the remote call.
C21_CancelledBetweenIterations ==
    (run.state = "exited" /\ run.by = "CancelledError") =>
        \A k \in 1..sim.stats.total_events : ClassifiedAndPersisted(k)
====
